---- MODULE Spec2Model ----
(***************************************************************************)
(* Model of classtm/labeled.py: the incrementally labeled datasets         *)
(* (IncrementalClassifiedDataset, QuickIncrementalClassifiedDataset,       *)
(* IncrementalSupervisedAnchorDataset), their document-word matrix, class  *)
(* order, vocabulary and co-occurrence matrix Q.                           *)
(*                                                                         *)
(* Conventions.  Python lists, numpy arrays and matrix axes are functions  *)
(* over 0..n-1, as in the code.  A dict is a function whose DOMAIN is the  *)
(* set of keys.  A matrix is indexed [row][column].  Floating-point values *)
(* are exact: document-word entries are integers, and entries of Q are     *)
(* held as integer multiples of 1/QUnit (class tally columns of the        *)
(* supervised variant as multiples of 1/TallyUnit).                        *)
(***************************************************************************)
EXTENDS Integers, Sequences, FiniteSets, TLC

----------------------------------------------------------------------------
(* Bounds of the model *)

NumDocs == 2
OrigVocabSize == 1
MaxCount == 2
MaxSmoothing == 1
TokenVocabSize == 2

Labels == {"A", "B"}

TitlePool == <<"doc1", "doc2", "doc3", "doc4">>
WordPool == <<"w1", "w2", "w3", "w4">>

----------------------------------------------------------------------------
(* Generic helpers for 0-based lists, dicts and integer arithmetic *)

None == <<>>

Len0(f) == Cardinality(DOMAIN f)

Append0(f, x) == [i \in 0..Len0(f) |-> IF i = Len0(f) THEN x ELSE f[i]]

DictSet(d, k, v) == [x \in (DOMAIN d) \cup {k} |-> IF x = k THEN v ELSE d[x]]

Max(S) == CHOOSE x \in S : \A y \in S : y <= x

RECURSIVE GCD(_, _)
GCD(a, b) == IF b = 0 THEN a ELSE GCD(b, a % b)

LCM(a, b) == (a * b) \div GCD(a, b)

RECURSIVE LCMUpTo(_, _)
LCMUpTo(lo, hi) == IF hi < lo THEN 1 ELSE LCM(hi, LCMUpTo(lo, hi - 1))

RECURSIVE SumOver(_, _)
SumOver(S, f) ==
    IF S = {} THEN 0
    ELSE LET x == CHOOSE y \in S : TRUE
         IN f[x] + SumOver(S \ {x}, f)

----------------------------------------------------------------------------
(* The base corpus handed to the constructors *)

titles == [i \in 0..(NumDocs - 1) |-> TitlePool[i + 1]]

Titles == {titles[i] : i \in DOMAIN titles}

BaseVocab == [i \in 0..(OrigVocabSize - 1) |-> WordPool[i + 1]]

RECURSIVE ColumnCode(_, _, _)
ColumnCode(dw, d, r) ==
    IF r < 0 THEN 0 ELSE dw[r][d] + (MaxCount + 1) * ColumnCode(dw, d, r - 1)

(* The corpora: every word count in 0..MaxCount.  Documents differ only by *)
(* their title, so of the corpora that are equal up to the order of their  *)
(* documents the one with its columns in ascending order is taken.         *)
Docwords(vocabsize) ==
    {dw \in [0..(vocabsize - 1) -> [0..(NumDocs - 1) -> 0..MaxCount]] :
        \A d \in 1..(NumDocs - 1) :
            ColumnCode(dw, d - 1, vocabsize - 1)
                <= ColumnCode(dw, d, vocabsize - 1)}

BaseDocwords == Docwords(OrigVocabSize)

(* The corpora of the specification about doc_tokens: a second word lets *)
(* the shuffle produce different orders; a document holds at most        *)
(* MaxCount tokens                                                       *)
TokenVocab == [i \in 0..(TokenVocabSize - 1) |-> WordPool[i + 1]]

TokenDocwords ==
    {dw \in Docwords(TokenVocabSize) :
        \A d \in 0..(NumDocs - 1) :
            SumOver(0..(TokenVocabSize - 1),
                    [r \in 0..(TokenVocabSize - 1) |-> dw[r][d]]) <= MaxCount}

get_titles_order(ts) ==
    [t \in {ts[i] : i \in DOMAIN ts} |->
        Max({i \in DOMAIN ts : ts[i] = t})]

titlesorder == get_titles_order(titles)

----------------------------------------------------------------------------
(* Label weight policy *)

(* Variant of doc_scaled that scales by the corpus size *)
doc_scaled_by_corpus(value) == [kind |-> "corpus", value |-> value]

doc_scaled(value) == [kind |-> "doc", value |-> value]

corpus_scaled(value) == [kind |-> "corpus", value |-> value]

return_value(value) == [kind |-> "fixed", value |-> value]

(* Calling the closure returned by doc_scaled / corpus_scaled / return_value *)
CallWeight(fn, doclength, corpussize) ==
    CASE fn.kind = "doc" -> doclength * fn.value
      [] fn.kind = "corpus" -> corpussize * fn.value
      [] fn.kind = "fixed" -> fn.value

Digits == <<"0", "1", "2", "3", "4", "5", "6", "7", "8", "9">>

DigitValue(c) == (CHOOSE i \in 1..10 : Digits[i] = c) - 1

IsDigit(c) == \E i \in 1..10 : Digits[i] = c

(* str.split(':'): the pieces between colons, as a 1-based sequence *)
RECURSIVE SplitColon(_)
SplitColon(s) ==
    IF \A i \in 1..Len(s) : s[i] # ":"
    THEN <<s>>
    ELSE LET k == CHOOSE i \in 1..Len(s) :
                      s[i] = ":" /\ \A j \in 1..(i - 1) : s[j] # ":"
         IN <<SubSeq(s, 1, k - 1)>> \o SplitColon(SubSeq(s, k + 1, Len(s)))

RECURSIVE DigitsValue(_)
DigitsValue(s) ==
    IF s = <<>> THEN 0
    ELSE 10 * DigitsValue(SubSeq(s, 1, Len(s) - 1)) + DigitValue(s[Len(s)])

(* float(text) on integer literals: optional sign, then digits;            *)
(* anything else raises ValueError                                         *)
FloatOk(s) ==
    LET body == IF s # <<>> /\ s[1] \in {"-", "+"} THEN Tail(s) ELSE s
    IN body # <<>> /\ \A i \in 1..Len(body) : IsDigit(body[i])

Float(s) ==
    IF s[1] = "-" THEN 0 - DigitsValue(Tail(s))
    ELSE IF s[1] = "+" THEN DigitsValue(Tail(s))
    ELSE DigitsValue(s)

Chars(str) ==
    CASE str = "doc:1" -> <<"d", "o", "c", ":", "1">>
      [] str = "doc:2" -> <<"d", "o", "c", ":", "2">>
      [] str = "corpus:1" -> <<"c", "o", "r", "p", "u", "s", ":", "1">>
      [] str = "doc" -> <<"d", "o", "c">>
      [] str = "corpus" -> <<"c", "o", "r", "p", "u", "s">>
      [] str = "2" -> <<"2">>
      [] str = "0" -> <<"0">>
      [] str = "-2" -> <<"-", "2">>
      [] str = "doc:-1" -> <<"d", "o", "c", ":", "-", "1">>
      [] str = "corpus:-1" -> <<"c", "o", "r", "p", "u", "s", ":", "-", "1">>
      [] str = "doc:1:2" -> <<"d", "o", "c", ":", "1", ":", "2">>
      [] str = "foo:1" -> <<"f", "o", "o", ":", "1">>
      [] str = "foo:x" -> <<"f", "o", "o", ":", "x">>
      [] str = "docs:1" -> <<"d", "o", "c", "s", ":", "1">>
      [] str = ":1" -> <<":", "1">>
      [] str = "doc:x" -> <<"d", "o", "c", ":", "x">>
      [] str = "corpus:" -> <<"c", "o", "r", "p", "u", "s", ":">>
      [] str = "x" -> <<"x">>
      [] str = "" -> <<>>

Raised(what) == [kind |-> "raise", value |-> what]

(* Variant that takes an unknown prefix for 'doc' *)
get_label_weight_function_lenient(label_weight) ==
    IF \E i \in 1..Len(label_weight) : label_weight[i] = ":"
    THEN LET args == SplitColon(label_weight)
         IN IF args[1] = Chars("corpus")
            THEN IF FloatOk(args[2]) THEN corpus_scaled(Float(args[2]))
                 ELSE Raised("ValueError")
            ELSE IF FloatOk(args[2]) THEN doc_scaled(Float(args[2]))
                 ELSE Raised("ValueError")
    ELSE IF FloatOk(label_weight) THEN return_value(Float(label_weight))
         ELSE Raised("ValueError")

get_label_weight_function(label_weight) ==
    IF \E i \in 1..Len(label_weight) : label_weight[i] = ":"
    THEN LET args == SplitColon(label_weight)
         IN IF args[1] = Chars("doc")
            THEN IF FloatOk(args[2]) THEN doc_scaled(Float(args[2]))
                 ELSE Raised("ValueError")
            ELSE IF args[1] = Chars("corpus")
            THEN IF FloatOk(args[2]) THEN corpus_scaled(Float(args[2]))
                 ELSE Raised("ValueError")
            ELSE Raised("Exception")
    ELSE IF FloatOk(label_weight) THEN return_value(Float(label_weight))
         ELSE Raised("ValueError")

(* The label_weight settings the datasets are constructed with *)
LabelWeightSettings == {Chars("doc:1"), Chars("corpus:1"), Chars("2")}

SmoothingSettings == 0..MaxSmoothing

(* Largest label weight the settings can produce *)
(* Largest number of real tokens a document can hold *)
MaxDocLength == Max({OrigVocabSize, TokenVocabSize}) * MaxCount

MaxWeight ==
    Max({CallWeight(get_label_weight_function(setting),
                    MaxDocLength, NumDocs) :
            setting \in LabelWeightSettings})

(* Largest total a document column can reach: real tokens plus the largest *)
(* pseudo-row content (a label weight, or smoothing in every class row).   *)
MaxColumnSum ==
    MaxDocLength
    + Max({MaxWeight, MaxSmoothing * Cardinality(Labels)})

(* count * (count - 1) divides NormUnit for every count in 2..MaxColumnSum *)
NormUnit == LCMUpTo(1, MaxColumnSum)

QUnit == NormUnit * NumDocs

TallyUnit == LCMUpTo(1, NumDocs)

----------------------------------------------------------------------------
(* Class order *)

(* Variant of orderclasses that fills the list from the far end *)
orderclasses_reversed(co) ==
    [i \in 0..(Len0(co) - 1) |->
        IF \E cla \in DOMAIN co : co[cla] = Len0(co) - 1 - i
        THEN CHOOSE cla \in DOMAIN co : co[cla] = Len0(co) - 1 - i
        ELSE ""]

orderclasses(co) ==
    [i \in 0..(Len0(co) - 1) |->
        IF \E cla \in DOMAIN co : co[cla] = i
        THEN CHOOSE cla \in DOMAIN co : co[cla] = i
        ELSE ""]

(* Variant that reuses the last index once a class exists *)
new_class_index_off_by_one(classorder_) ==
    IF Len0(classorder_) = 0 THEN 0 ELSE Len0(classorder_) - 1

(* classorder[label] = len(classorder) *)
new_class_index(classorder_) == Len0(classorder_)

(* Variant that puts the new pseudo-token in front of the earlier ones *)
append_vocab_front(vocab_, label) ==
    [i \in 0..Len0(vocab_) |->
        IF i < Len0(BaseVocab) THEN vocab_[i]
        ELSE IF i = Len0(BaseVocab) THEN label
        ELSE vocab_[i - 1]]

(* np.append(self._vocab, label) *)
append_vocab(vocab_, label) == Append0(vocab_, label)

----------------------------------------------------------------------------
(* State *)

VARIABLES
    dataset,                \* the base dataset handed to the constructor
    settings,               \* the settings handed to the constructor
    variant,                \* which dataset class the instance is
    smoothing,              \* self.smoothing
    label_weight,           \* self.label_weight
    vocab,                  \* self._vocab
    docwords,               \* self._docwords
    dtype,                  \* self._docwords.dtype
    labels,                 \* self.labels
    classorder,             \* self.classorder
    orderedclasses,         \* self.orderedclasses
    newlabels,              \* self.newlabels (quick variant)
    prevq,                  \* self.prevq (quick variant)
    cooccurrences,          \* self._cooccurrences
    dataset_cooccurrences,  \* self._dataset_cooccurrences (supervised)
    tokens,                 \* self._tokens
    refs,                   \* which object each field of each instance names
    other,                  \* a second instance built from the same dataset
    returned,               \* argument and return value of the last call
    lastOp,                 \* the method that ran last
    computeRun,             \* consecutive compute_cooccurrences calls, up to 2
    fullPass,               \* the last method ran Dataset.compute_cooccurrences
    computed,               \* the last method ran compute_cooccurrences
    raised,                 \* the last method raised an exception
    seen,                   \* distinct labels in the order first passed in
    hosts,                  \* main.py: the hosts list
    config,                 \* main.py: the settings lines of the config file
    work,                   \* pickle_data: the work set the threads share
    lock,                   \* pickle_data: the lock is held
    threads,                \* the thread list of pickle_data or run_jobs
    main,                   \* position of the main thread of the launcher
    processed               \* completed remote pickling commands per line

datasetVars == <<dataset, settings, variant, smoothing, label_weight, vocab,
                 docwords, dtype, labels, classorder, orderedclasses,
                 newlabels, prevq, cooccurrences, dataset_cooccurrences,
                 tokens, refs, other, returned, lastOp, computeRun, fullPass,
                 computed, raised, seen>>

launcherVars == <<hosts, config, work, lock, threads, main, processed>>

vars == <<datasetVars, launcherVars>>

settingsVars == <<settings, variant, smoothing, label_weight,
                  dataset_cooccurrences>>

(* labeled.py is used as a library: the launcher is not running *)
NoLauncher ==
    /\ hosts = <<>>
    /\ config = <<>>
    /\ work = {}
    /\ lock = FALSE
    /\ threads = <<>>
    /\ main = [pc |-> "none", i |-> 0]
    /\ processed = <<>>

----------------------------------------------------------------------------
(* Matrices *)

(* self.origvocabsize = len(self._vocab), taken at construction *)
origvocabsize == Len0(dataset.vocab)

Rows(m) == Len0(m)

Cols(m) == Len0(m[0])

Zeros(h, w) == [r \in 0..(h - 1) |-> [c \in 0..(w - 1) |-> 0]]

MatSub(a, b) == [r \in DOMAIN a |-> [c \in DOMAIN a[r] |-> a[r][c] - b[r][c]]]

MatAdd(a, b) == [r \in DOMAIN a |-> [c \in DOMAIN a[r] |-> a[r][c] + b[r][c]]]

MatDiv(a, k) == [r \in DOMAIN a |-> [c \in DOMAIN a[r] |-> a[r][c] \div k]]

(* Sum of the entries of column docnum in rows lo..hi *)
ColumnSum(dw, docnum, lo, hi) ==
    SumOver(lo..hi, [r \in lo..hi |-> dw[r][docnum]])

(* Variant of _label_helper that erases the pseudo-rows of every column *)
_label_helper_erase_rows(docwords_, title, label, classorder_, label_weight_) ==
    LET docnum == titlesorder[title]
        erased == [r \in DOMAIN docwords_ |->
                     [c \in DOMAIN docwords_[r] |->
                        IF r >= origvocabsize THEN 0 ELSE docwords_[r][c]]]
        weight == CallWeight(label_weight_,
                             ColumnSum(erased, docnum, 0, origvocabsize - 1),
                             Cols(erased))
    IN [erased EXCEPT ![origvocabsize + classorder_[label]][docnum] = weight]

(* Variant of _label_helper that erases the whole column of the document *)
_label_helper_erase_column(docwords_, title, label, classorder_, label_weight_) ==
    LET docnum == titlesorder[title]
        erased == [r \in DOMAIN docwords_ |->
                     [c \in DOMAIN docwords_[r] |->
                        IF c = docnum THEN 0 ELSE docwords_[r][c]]]
        weight == CallWeight(label_weight_,
                             ColumnSum(erased, docnum, 0, origvocabsize - 1),
                             Cols(erased))
    IN [erased EXCEPT ![origvocabsize + classorder_[label]][docnum] = weight]

(* Variant of _label_helper that does not erase the pseudo-rows first *)
_label_helper_no_erase(docwords_, title, label, classorder_, label_weight_) ==
    LET docnum == titlesorder[title]
        weight == CallWeight(label_weight_,
                             ColumnSum(docwords_, docnum, 0, origvocabsize - 1),
                             Cols(docwords_))
    IN [docwords_ EXCEPT
           ![origvocabsize + classorder_[label]][docnum] = weight]

_label_helper(docwords_, title, label, classorder_, label_weight_) ==
    LET docnum == titlesorder[title]
        erased == [r \in DOMAIN docwords_ |->
                     [c \in DOMAIN docwords_[r] |->
                        IF r >= origvocabsize /\ c = docnum
                        THEN 0 ELSE docwords_[r][c]]]
        weight == CallWeight(label_weight_,
                             ColumnSum(erased, docnum, 0, origvocabsize - 1),
                             Cols(erased))
    IN [erased EXCEPT ![origvocabsize + classorder_[label]][docnum] = weight]

(* for curtitle, curlabel in labels.items(): _label_helper(tmp, ...) *)
RECURSIVE ApplyLabels(_, _, _, _, _)
ApplyLabels(tmp, keys, labels_, classorder_, label_weight_) ==
    IF keys = {} THEN tmp
    ELSE LET curtitle == CHOOSE t \in keys : TRUE
         IN ApplyLabels(
                _label_helper(tmp, curtitle, labels_[curtitle],
                              classorder_, label_weight_),
                keys \ {curtitle}, labels_, classorder_, label_weight_)

(* Variant of the rebuild that leaves the first pseudo-row unsmoothed *)
RebuildDocwords_skip_first(dw, vocab_, labels_, classorder_, lw, smoothing_) ==
    LET tmp == [r \in 0..(Len0(vocab_) - 1) |->
                  [c \in 0..(Len0(titles) - 1) |->
                     IF r < origvocabsize THEN dw[r][c]
                     ELSE IF r = origvocabsize THEN 0
                     ELSE smoothing_]]
    IN ApplyLabels(tmp, DOMAIN labels_, labels_, classorder_, lw)

(* The new-class branch of label_document: resize and refill docwords *)
RebuildDocwords(dw, vocab_, labels_, classorder_, lw, smoothing_) ==
    LET tmp == [r \in 0..(Len0(vocab_) - 1) |->
                  [c \in 0..(Len0(titles) - 1) |->
                     IF r < origvocabsize THEN dw[r][c]
                     ELSE smoothing_]]
    IN ApplyLabels(tmp, DOMAIN labels_, labels_, classorder_, lw)

----------------------------------------------------------------------------
(* Co-occurrence computation *)

(* Variant of the normaliser that counts the real-word rows only *)
Norm_real_rows(dw, docnum) ==
    LET count == ColumnSum(dw, docnum, 0, origvocabsize - 1)
    IN count * (count - 1)

(* Per-document normaliser of the anchor-word Q: count * (count - 1) *)
Norm(dw, docnum) ==
    LET count == ColumnSum(dw, docnum, 0, Rows(dw) - 1)
    IN count * (count - 1)

(* Strategy A, the full recomputation of the base corpus class: every    *)
(* document adds its normalised self outer product less the diagonal     *)
(* self-pairing term; the sum is divided by the number of documents.     *)
Dataset_compute_cooccurrences(dw) ==
    LET docs == {d \in 0..(Cols(dw) - 1) : Norm(dw, d) # 0}
        scale == [d \in docs |-> QUnit \div Norm(dw, d)]
        pair(i, j) ==
            SumOver(docs, [d \in docs |->
                (dw[i][d] * dw[j][d] - (IF i = j THEN dw[i][d] ELSE 0))
                    * scale[d]])
    IN [i \in 0..(Rows(dw) - 1) |->
          [j \in 0..(Rows(dw) - 1) |-> pair(i, j) \div Cols(dw)]]

(* Variant of _build_miniq without the diagonal correction *)
_build_miniq_no_diagonal(dw, docnums) ==
    LET vocab_size == Rows(dw)
        used == {d \in docnums : Norm(dw, d) # 0}
        scale == [d \in used |-> QUnit \div Norm(dw, d)]
    IN [i \in 0..(vocab_size - 1) |->
          [j \in 0..(vocab_size - 1) |->
             SumOver(used, [d \in used |->
                 dw[i][d] * dw[j][d] * scale[d]])]]

_build_miniq(dw, docnums) ==
    LET vocab_size == Rows(dw)
        used == {d \in docnums : Norm(dw, d) # 0}
        (* 1 / norm; the two 1/sqrtnorm factors of a document in          *)
        (* H_tilde * H_tilde.T multiply to it                             *)
        scale == [d \in used |-> QUnit \div Norm(dw, d)]
        H_hat == [i \in 0..(vocab_size - 1) |->
                    SumOver(used, [d \in used |-> dw[i][d] * scale[d]])]
        HHt == [i \in 0..(vocab_size - 1) |->
                  [j \in 0..(vocab_size - 1) |->
                     SumOver(used, [d \in used |->
                         dw[i][d] * dw[j][d] * scale[d]])]]
    IN [i \in 0..(vocab_size - 1) |->
          [j \in 0..(vocab_size - 1) |->
             HHt[i][j] - (IF i = j THEN H_hat[i] ELSE 0)]]

(* Variant that drops the pending labels without applying them *)
ApplyNewLabels_skip(dw, newlabels_, classorder_, label_weight_) == dw

(* for title, label in newlabels.items(): _label_helper(tmp, title, label) *)
ApplyNewLabels(dw, newlabels_, classorder_, label_weight_) ==
    ApplyLabels(dw, DOMAIN newlabels_, newlabels_, classorder_, label_weight_)

(* Variant in which prevq is a copy taken before the in-place update *)
prevq_after_update_copy(loaded, updated) == loaded

(* prevq and _cooccurrences name the same array (self.prevq =             *)
(* self._cooccurrences, or the reverse), so prevq sees what -= and +=     *)
(* write into _cooccurrences.                                             *)
prevq_after_update(loaded, updated) == updated

(* Variant of compute_cooccurrences that keeps the pending batch *)
QuickCompute_keep_pending(docwords_, prevq_, newlabels_, classorder_, label_weight_) ==
    LET loaded == IF prevq_ = None
                  THEN Dataset_compute_cooccurrences(docwords_)
                  ELSE prevq_
        docnums == {titlesorder[t] : t \in DOMAIN newlabels_}
        miniq_out == _build_miniq(docwords_, docnums)
        taken == MatSub(loaded, MatDiv(miniq_out, Cols(docwords_)))
        patched == ApplyNewLabels(docwords_, newlabels_, classorder_,
                                  label_weight_)
        miniq_in == _build_miniq(patched, docnums)
        put == MatAdd(taken, MatDiv(miniq_in, Cols(patched)))
    IN [docwords |-> patched, cooccurrences |-> put,
        prevq |-> prevq_after_update(loaded, put),
        newlabels |-> newlabels_, full |-> prevq_ = None]

(* QuickIncrementalClassifiedDataset.compute_cooccurrences as a function  *)
(* of the fields it reads; the result holds the fields it writes.         *)
QuickCompute(docwords_, prevq_, newlabels_, classorder_, label_weight_) ==
    LET loaded == IF prevq_ = None
                  THEN Dataset_compute_cooccurrences(docwords_)
                  ELSE prevq_
        docnums == {titlesorder[t] : t \in DOMAIN newlabels_}
        miniq_out == _build_miniq(docwords_, docnums)
        taken == MatSub(loaded, MatDiv(miniq_out, Cols(docwords_)))
        patched == ApplyNewLabels(docwords_, newlabels_, classorder_,
                                  label_weight_)
        miniq_in == _build_miniq(patched, docnums)
        put == MatAdd(taken, MatDiv(miniq_in, Cols(patched)))
    IN IF DOMAIN newlabels_ # {}
       THEN [docwords |-> patched, cooccurrences |-> put,
             prevq |-> prevq_after_update(loaded, put),
             newlabels |-> <<>>, full |-> prevq_ = None]
       ELSE [docwords |-> docwords_, cooccurrences |-> loaded,
             prevq |-> loaded, newlabels |-> newlabels_,
             full |-> prevq_ = None]

(* SupervisedAnchorDataset.compute_cooccurrences, rows 0..orig_height-1;  *)
(* the class tally columns are multiples of 1/TallyUnit                   *)
SupCompute(base, docwords_, labels_, classorder_) ==
    LET orig_height == Rows(base)
        orig_width == Cols(base)
        classcount == Len0(classorder_)
        labeled(i) == {d \in 0..(Cols(docwords_) - 1) :
                          /\ docwords_[i][d] > 0
                          /\ titles[d] \in DOMAIN labels_
                          /\ labels_[titles[d]] # ""}
        tally(i, c) == Cardinality({d \in labeled(i) :
                                       classorder_[labels_[titles[d]]] = c})
        total(i) == Cardinality(labeled(i))
    IN [i \in 0..(orig_height - 1) |->
          [j \in 0..(orig_width + classcount - 1) |->
             IF j < orig_width THEN base[i][j]
             ELSE IF total(i) > 0
                  THEN (tally(i, j - orig_width) * TallyUnit) \div total(i)
                  ELSE 0]]

----------------------------------------------------------------------------
(* Construction *)

Variants == {"incremental", "quick", "supervised"}

(* The settings dict: smoothing and the label_weight string *)
Settings ==
    [smoothing : SmoothingSettings, label_weight : LabelWeightSettings]

(* The fields of an instance whose object identity is followed *)
TrackedFields == {"docwords", "vocab", "labels", "classorder", "cooccurrences"}

(* Variant in which every constructor call passes the same dict object *)
NewDict_shared(party) == "caller"

(* The {} literals the incremental constructors pass as labels and       *)
(* classorder: an object of the instance under construction              *)
NewDict(party) == party

(* Dataset.__init__ keeps the docwords and vocab objects of the base     *)
(* dataset; labels and classorder are the dicts the constructor passes   *)
NewRefs(party) ==
    [f \in TrackedFields |->
        IF f \in {"docwords", "vocab"} THEN "dataset"
        ELSE IF f \in {"labels", "classorder"} THEN NewDict(party)
        ELSE party]

(* AbstractClassifiedDataset.__init__ with labels = {} and classorder = {}, *)
(* then the subclass constructors                                           *)
NewInstance(v, ds, st) ==
    [variant |-> v,
     settings |-> st,
     smoothing |-> IF v = "supervised" THEN 0 ELSE st.smoothing,
     label_weight |-> IF v = "supervised" THEN return_value(0)
                      ELSE get_label_weight_function(st.label_weight),
     vocab |-> ds.vocab,
     docwords |-> ds.docwords,
     dtype |-> "int",
     labels |-> <<>>,
     classorder |-> <<>>,
     orderedclasses |-> orderclasses(<<>>),
     newlabels |-> <<>>,
     prevq |-> None,
     cooccurrences |-> None,
     dataset_cooccurrences |-> IF v = "supervised"
                               THEN Dataset_compute_cooccurrences(ds.docwords)
                               ELSE None,
     tokens |-> <<>>,
     seen |-> <<>>]

(* The instance the variables hold *)
Self ==
    [variant |-> variant, settings |-> settings, smoothing |-> smoothing,
     label_weight |-> label_weight, vocab |-> vocab, docwords |-> docwords,
     dtype |-> dtype, labels |-> labels, classorder |-> classorder,
     orderedclasses |-> orderedclasses, newlabels |-> newlabels,
     prevq |-> prevq, cooccurrences |-> cooccurrences,
     dataset_cooccurrences |-> dataset_cooccurrences, tokens |-> tokens,
     seen |-> seen]

(* The variables hold the instance inst *)
Holds(inst) ==
    /\ variant = inst.variant
    /\ settings = inst.settings
    /\ smoothing = inst.smoothing
    /\ label_weight = inst.label_weight
    /\ vocab = inst.vocab
    /\ docwords = inst.docwords
    /\ dtype = inst.dtype
    /\ labels = inst.labels
    /\ classorder = inst.classorder
    /\ orderedclasses = inst.orderedclasses
    /\ newlabels = inst.newlabels
    /\ prevq = inst.prevq
    /\ cooccurrences = inst.cooccurrences
    /\ dataset_cooccurrences = inst.dataset_cooccurrences
    /\ tokens = inst.tokens
    /\ seen = inst.seen

(* No method has run yet *)
Fresh ==
    /\ returned = None
    /\ lastOp = "init"
    /\ computeRun = 0
    /\ fullPass = (variant = "supervised")
    /\ computed = FALSE
    /\ raised = FALSE

(* The constructor returned an instance *)
Created == lastOp # "super_init" /\ ~(lastOp = "init" /\ raised)

(* One instance of any of the three classes over a base corpus *)
Init ==
    /\ \E dw \in BaseDocwords : dataset = [docwords |-> dw, vocab |-> BaseVocab]
    /\ \E v \in Variants, st \in Settings :
          /\ v = "supervised" =>
                st = [smoothing |-> 0, label_weight |-> Chars("2")]
          /\ Holds(NewInstance(v, dataset, st))
    /\ refs = [self |-> NewRefs("self"), other |-> None]
    /\ other = None
    /\ Fresh
    /\ NoLauncher

(* The value of a followed field *)
Field(f) ==
    CASE f = "docwords" -> docwords
      [] f = "vocab" -> vocab
      [] f = "labels" -> labels
      [] f = "classorder" -> classorder
      [] f = "cooccurrences" -> cooccurrences

(* What a method does to objects other parties may hold: a field it      *)
(* assigns names a new object of the instance; a field it writes in      *)
(* place changes for every party that names the same object.             *)
Aliasing(mutated, rebound) ==
    /\ refs' = [refs EXCEPT !.self =
                    [f \in TrackedFields |->
                        IF f \in rebound THEN "self" ELSE refs.self[f]]]
    /\ other' =
          IF other = None THEN None
          ELSE [f \in DOMAIN other |->
                  IF /\ f \in mutated \ rebound
                     /\ refs.other[f] = refs.self[f]
                  THEN Field(f)' ELSE other[f]]
    /\ dataset' =
          [f \in DOMAIN dataset |->
              IF f \in mutated \ rebound /\ refs.self[f] = "dataset"
              THEN Field(f)' ELSE dataset[f]]

Seen(label) == IF \E i \in DOMAIN seen : seen[i] = label
               THEN seen ELSE Append0(seen, label)

----------------------------------------------------------------------------
(* IncrementalClassifiedDataset *)

IncLabelDocument(title, label) ==
    /\ variant = "incremental"
    /\ LET labels1 == DictSet(labels, title, label)
       IN /\ labels' = labels1
          /\ IF label \notin DOMAIN classorder
             THEN LET classorder1 == DictSet(classorder, label,
                                             new_class_index(classorder))
                      vocab1 == append_vocab(vocab, label)
                  IN /\ classorder' = classorder1
                     /\ orderedclasses' = orderclasses(classorder1)
                     /\ vocab' = vocab1
                     /\ docwords' = RebuildDocwords(docwords, vocab1, labels1,
                                        classorder1, label_weight, smoothing)
                     /\ dtype' = "float"
             ELSE /\ docwords' = _label_helper(docwords, title, label,
                                               classorder, label_weight)
                  /\ UNCHANGED <<classorder, orderedclasses, vocab, dtype>>
    /\ cooccurrences' = None
    /\ lastOp' = "label_document"
    /\ UNCHANGED launcherVars
    /\ computeRun' = 0
    /\ fullPass' = FALSE
    /\ computed' = FALSE
    /\ raised' = FALSE
    /\ seen' = Seen(label)
    /\ UNCHANGED <<settingsVars, newlabels, prevq, tokens>>
    /\ returned' = None
    /\ IF label \notin DOMAIN classorder
       THEN Aliasing({"labels", "classorder"},
                     {"vocab", "docwords", "cooccurrences"})
       ELSE Aliasing({"labels"}, {"docwords", "cooccurrences"})

(* compute_cooccurrences inherited from the base corpus class *)
IncComputeCooccurrences ==
    /\ variant = "incremental"
    /\ cooccurrences' = Dataset_compute_cooccurrences(docwords)
    /\ lastOp' = "compute_cooccurrences"
    /\ UNCHANGED launcherVars
    /\ computeRun' = IF computeRun < 2 THEN computeRun + 1 ELSE 2
    /\ fullPass' = TRUE
    /\ computed' = TRUE
    /\ raised' = FALSE
    /\ UNCHANGED <<settingsVars, vocab, docwords, dtype, labels, classorder,
                   orderedclasses, newlabels, prevq, seen, tokens>>
    /\ returned' = None
    /\ Aliasing({}, {"cooccurrences"})

----------------------------------------------------------------------------
(* QuickIncrementalClassifiedDataset *)

QuickComputeCooccurrences ==
    /\ variant = "quick"
    /\ LET out == QuickCompute(docwords, prevq, newlabels, classorder,
                               label_weight)
       IN /\ docwords' = out.docwords
          /\ cooccurrences' = out.cooccurrences
          /\ prevq' = out.prevq
          /\ newlabels' = out.newlabels
          /\ fullPass' = out.full
    /\ lastOp' = "compute_cooccurrences"
    /\ UNCHANGED launcherVars
    /\ computeRun' = IF computeRun < 2 THEN computeRun + 1 ELSE 2
    /\ computed' = TRUE
    /\ raised' = FALSE
    /\ UNCHANGED <<settingsVars, vocab, dtype, labels, classorder,
                   orderedclasses, seen, tokens>>
    /\ returned' = None
    /\ Aliasing(IF DOMAIN newlabels # {} THEN {"cooccurrences"} ELSE {},
                (IF prevq = None THEN {"cooccurrences"} ELSE {})
                    \cup (IF DOMAIN newlabels # {} THEN {"docwords"} ELSE {}))

(* Variant of the new-class branch that keeps the cached Q *)
QuickLabelNewClass_keep_prevq(title, label, labels1) ==
    LET out == QuickCompute(docwords, prevq, newlabels, classorder,
                            label_weight)
        classorder1 == DictSet(classorder, label, new_class_index(classorder))
        vocab1 == append_vocab(vocab, label)
    IN /\ prevq' = out.prevq
       /\ newlabels' = out.newlabels
       /\ classorder' = classorder1
       /\ orderedclasses' = orderclasses(classorder1)
       /\ vocab' = vocab1
       /\ docwords' = RebuildDocwords(out.docwords, vocab1, labels1,
                                      classorder1, label_weight, smoothing)
       /\ dtype' = "float"
       /\ fullPass' = out.full
       /\ computed' = TRUE
       /\ Aliasing({"labels", "classorder"},
                   {"vocab", "docwords", "cooccurrences"})

(* The branch of label_document for a label not yet in classorder *)
QuickLabelNewClass(title, label, labels1) ==
    LET out == QuickCompute(docwords, prevq, newlabels, classorder,
                            label_weight)
        classorder1 == DictSet(classorder, label, new_class_index(classorder))
        vocab1 == append_vocab(vocab, label)
    IN /\ prevq' = None
       /\ newlabels' = out.newlabels
       /\ classorder' = classorder1
       /\ orderedclasses' = orderclasses(classorder1)
       /\ vocab' = vocab1
       /\ docwords' = RebuildDocwords(out.docwords, vocab1, labels1,
                                      classorder1, label_weight, smoothing)
       /\ dtype' = "float"
       /\ fullPass' = out.full
       /\ computed' = TRUE
       /\ Aliasing({"labels", "classorder"},
                   {"vocab", "docwords", "cooccurrences"})

(* Variant of the known-class branch that does not record the relabel *)
QuickLabelKnownClass_forget(title, label) ==
    /\ newlabels' = newlabels
    /\ fullPass' = FALSE
    /\ computed' = FALSE
    /\ UNCHANGED <<prevq, classorder, orderedclasses, vocab, docwords, dtype>>
    /\ Aliasing({"labels"}, {"cooccurrences"})

(* Variant of the known-class branch that updates Q at once *)
QuickLabelKnownClass_eager(title, label) ==
    LET out == QuickCompute(docwords, prevq, DictSet(newlabels, title, label),
                            classorder, label_weight)
    IN /\ newlabels' = out.newlabels
       /\ docwords' = out.docwords
       /\ prevq' = out.prevq
       /\ fullPass' = out.full
       /\ computed' = TRUE
       /\ UNCHANGED <<classorder, orderedclasses, vocab, dtype>>
       /\ Aliasing({"labels"}, {"docwords", "cooccurrences"})

(* The branch of label_document for a label already in classorder *)
QuickLabelKnownClass(title, label) ==
    /\ newlabels' = DictSet(newlabels, title, label)
    /\ fullPass' = FALSE
    /\ computed' = FALSE
    /\ UNCHANGED <<prevq, classorder, orderedclasses, vocab, docwords, dtype>>
    /\ Aliasing({"labels"}, {"cooccurrences"})

QuickLabelDocument(title, label) ==
    /\ variant = "quick"
    /\ labels' = DictSet(labels, title, label)
    /\ IF label \notin DOMAIN classorder
       THEN QuickLabelNewClass(title, label, DictSet(labels, title, label))
       ELSE QuickLabelKnownClass(title, label)
    /\ cooccurrences' = None
    /\ lastOp' = "label_document"
    /\ UNCHANGED launcherVars
    /\ computeRun' = 0
    /\ raised' = FALSE
    /\ seen' = Seen(label)
    /\ UNCHANGED <<settingsVars, tokens>>
    /\ returned' = None

----------------------------------------------------------------------------
(* IncrementalSupervisedAnchorDataset *)

(* Variant that appends a new class to the vocabulary *)
SupLabelDocument_grow_vocab(title, label) ==
    /\ variant = "supervised"
    /\ labels' = DictSet(labels, title, label)
    /\ IF label \notin DOMAIN classorder
       THEN LET classorder1 == DictSet(classorder, label,
                                       new_class_index(classorder))
            IN /\ classorder' = classorder1
               /\ orderedclasses' = orderclasses(classorder1)
               /\ vocab' = append_vocab(vocab, label)
       ELSE UNCHANGED <<classorder, orderedclasses, vocab>>
    /\ cooccurrences' = None
    /\ lastOp' = "label_document"
    /\ UNCHANGED launcherVars
    /\ computeRun' = 0
    /\ fullPass' = FALSE
    /\ computed' = FALSE
    /\ raised' = FALSE
    /\ seen' = Seen(label)
    /\ UNCHANGED <<settingsVars, docwords, dtype, newlabels, prevq, tokens>>
    /\ returned' = None
    /\ Aliasing({"labels", "classorder"}, {"cooccurrences", "vocab"})

(* Variant that clears the cached Q only when the class is new *)
SupLabelDocument_keep_q(title, label) ==
    /\ variant = "supervised"
    /\ labels' = DictSet(labels, title, label)
    /\ IF label \notin DOMAIN classorder
       THEN LET classorder1 == DictSet(classorder, label,
                                       new_class_index(classorder))
            IN /\ classorder' = classorder1
               /\ orderedclasses' = orderclasses(classorder1)
               /\ cooccurrences' = None
       ELSE UNCHANGED <<classorder, orderedclasses, cooccurrences>>
    /\ lastOp' = "label_document"
    /\ UNCHANGED launcherVars
    /\ computeRun' = 0
    /\ fullPass' = FALSE
    /\ computed' = FALSE
    /\ raised' = FALSE
    /\ seen' = Seen(label)
    /\ UNCHANGED <<settingsVars, vocab, docwords, dtype, newlabels, prevq,
                   tokens>>
    /\ returned' = None
    /\ Aliasing({"labels", "classorder"}, {"cooccurrences"})

SupLabelDocument(title, label) ==
    /\ variant = "supervised"
    /\ labels' = DictSet(labels, title, label)
    /\ IF label \notin DOMAIN classorder
       THEN LET classorder1 == DictSet(classorder, label,
                                       new_class_index(classorder))
            IN /\ classorder' = classorder1
               /\ orderedclasses' = orderclasses(classorder1)
       ELSE UNCHANGED <<classorder, orderedclasses>>
    /\ cooccurrences' = None
    /\ lastOp' = "label_document"
    /\ UNCHANGED launcherVars
    /\ computeRun' = 0
    /\ fullPass' = FALSE
    /\ computed' = FALSE
    /\ raised' = FALSE
    /\ seen' = Seen(label)
    /\ UNCHANGED <<settingsVars, vocab, docwords, dtype, newlabels, prevq,
                   tokens>>
    /\ returned' = None
    /\ Aliasing({"labels", "classorder"}, {"cooccurrences"})

(* With classcount = 0 the slice [:, :-classcount] is empty, so the      *)
(* assignment of the base matrix into it raises after _cooccurrences has *)
(* been set to the zero matrix.                                          *)
SupComputeCooccurrences ==
    /\ variant = "supervised"
    /\ IF Len0(classorder) = 0
       THEN /\ cooccurrences' = Zeros(Rows(dataset_cooccurrences),
                                      Cols(dataset_cooccurrences))
            /\ raised' = TRUE
       ELSE /\ cooccurrences' = SupCompute(dataset_cooccurrences, docwords,
                                           labels, classorder)
            /\ raised' = FALSE
    /\ lastOp' = "compute_cooccurrences"
    /\ UNCHANGED launcherVars
    /\ computeRun' = IF computeRun < 2 THEN computeRun + 1 ELSE 2
    /\ fullPass' = FALSE
    /\ computed' = TRUE
    /\ UNCHANGED <<settingsVars, vocab, docwords, dtype, labels, classorder,
                   orderedclasses, newlabels, prevq, seen, tokens>>
    /\ returned' = None
    /\ Aliasing({}, {"cooccurrences"})

----------------------------------------------------------------------------
(* doc_tokens of ClassifiedDataset and IncrementalClassifiedDataset *)

(* [token_id] * count for an integer count *)
Repeat(token_id, count) == [i \in 1..count |-> token_id]

(* The loop over scipy.sparse.find(self._docwords[:, doc_id]): the nonzero *)
(* rows of the column in row order, those below origvocabsize repeated     *)
(* count times; rows 0..r as a 1-based sequence                            *)
RECURSIVE ColumnTokens(_, _, _)
ColumnTokens(dw, doc_id, r) ==
    IF r < 0 THEN <<>>
    ELSE ColumnTokens(dw, doc_id, r - 1)
             \o (IF r < origvocabsize THEN Repeat(r, dw[r][doc_id]) ELSE <<>>)

List(sequence) == [i \in 0..(Len(sequence) - 1) |-> sequence[i + 1]]

(* The orders rng.shuffle can leave the list in *)
Shuffles(list) ==
    LET elems == {list[i] : i \in DOMAIN list}
    IN {s \in [DOMAIN list -> elems] :
           \A x \in elems : Cardinality({i \in DOMAIN list : s[i] = x})
                                = Cardinality({i \in DOMAIN list : list[i] = x})}

(* Variant of the cache lookup that never finds the document *)
cached_tokens_never(tokens_, doc_id) == FALSE

(* if doc_id in self._tokens *)
cached_tokens(tokens_, doc_id) == doc_id \in DOMAIN tokens_

(* After a rebuild the matrix holds floats, and a list times a float     *)
(* count raises TypeError at the first real word of the column; nothing  *)
(* is cached then.                                                       *)
DocTokens(doc_id) ==
    /\ variant \in {"batch", "incremental", "quick"}
    /\ Created
    /\ LET found == List(ColumnTokens(docwords, doc_id, Rows(docwords) - 1))
       IN IF cached_tokens(tokens, doc_id)
          THEN /\ returned' = [arg |-> doc_id, value |-> tokens[doc_id]]
               /\ raised' = FALSE
               /\ tokens' = tokens
          ELSE IF dtype = "float" /\ Len0(found) > 0
          THEN /\ returned' = [arg |-> doc_id, value |-> Raised("TypeError")]
               /\ raised' = TRUE
               /\ tokens' = tokens
          ELSE \E shuffled \in Shuffles(found) :
                  /\ returned' = [arg |-> doc_id, value |-> shuffled]
                  /\ raised' = FALSE
                  /\ tokens' = DictSet(tokens, doc_id, shuffled)
    /\ lastOp' = "doc_tokens"
    /\ UNCHANGED launcherVars
    /\ computeRun' = 0
    /\ fullPass' = FALSE
    /\ computed' = FALSE
    /\ UNCHANGED <<settingsVars, vocab, docwords, dtype, labels, classorder,
                   orderedclasses, newlabels, prevq, cooccurrences, seen>>
    /\ Aliasing({}, {})

----------------------------------------------------------------------------

Next ==
    \/ \E title \in Titles, label \in Labels : IncLabelDocument(title, label)
    \/ IncComputeCooccurrences
    \/ \E title \in Titles, label \in Labels : QuickLabelDocument(title, label)
    \/ QuickComputeCooccurrences
    \/ \E title \in Titles, label \in Labels : SupLabelDocument(title, label)
    \/ SupComputeCooccurrences

Spec == Init /\ [][Next]_vars

(* doc_tokens reads neither the settings nor which class a label is: one *)
(* setting and one label keep the token orders enumerable                *)
TokenSettings ==
    {st \in Settings : /\ st.smoothing = MaxSmoothing
                       /\ st.label_weight = Chars("doc:1")}

TokenLabels == {"A"}

(* Incremental and quick instances over corpora of TokenVocabSize words, *)
(* with doc_tokens among the methods called                              *)
TokensInit ==
    /\ \E dw \in TokenDocwords : dataset = [docwords |-> dw, vocab |-> TokenVocab]
    /\ \E v \in {"incremental", "quick"}, st \in TokenSettings :
          Holds(NewInstance(v, dataset, st))
    /\ refs = [self |-> NewRefs("self"), other |-> None]
    /\ other = None
    /\ Fresh
    /\ NoLauncher

TokensNext ==
    \/ \E title \in Titles, label \in TokenLabels :
          IncLabelDocument(title, label)
    \/ IncComputeCooccurrences
    \/ \E title \in Titles, label \in TokenLabels :
          QuickLabelDocument(title, label)
    \/ QuickComputeCooccurrences
    \/ \E doc_id \in DOMAIN titles : DocTokens(doc_id)

TokensSpec == TokensInit /\ [][TokensNext]_vars

(* The label_weight strings the constructor is tried with: what the text  *)
(* is made of: a colon or not, the text before the first colon, whether   *)
(* the value text (the whole text without a colon, else the text between  *)
(* the first colon and the next) is a number, and the number it denotes   *)
WeightTexts ==
    {[text |-> "doc:1", colon |-> TRUE, prefix |-> "doc",
      number |-> TRUE, value |-> 1],
     [text |-> "doc:2", colon |-> TRUE, prefix |-> "doc",
      number |-> TRUE, value |-> 2],
     [text |-> "doc:-1", colon |-> TRUE, prefix |-> "doc",
      number |-> TRUE, value |-> 0 - 1],
     [text |-> "doc:1:2", colon |-> TRUE, prefix |-> "doc",
      number |-> TRUE, value |-> 1],
     [text |-> "doc:x", colon |-> TRUE, prefix |-> "doc",
      number |-> FALSE, value |-> 0],
     [text |-> "corpus:1", colon |-> TRUE, prefix |-> "corpus",
      number |-> TRUE, value |-> 1],
     [text |-> "corpus:-1", colon |-> TRUE, prefix |-> "corpus",
      number |-> TRUE, value |-> 0 - 1],
     [text |-> "corpus:", colon |-> TRUE, prefix |-> "corpus",
      number |-> FALSE, value |-> 0],
     [text |-> "foo:1", colon |-> TRUE, prefix |-> "foo",
      number |-> TRUE, value |-> 1],
     [text |-> "foo:x", colon |-> TRUE, prefix |-> "foo",
      number |-> FALSE, value |-> 0],
     [text |-> "docs:1", colon |-> TRUE, prefix |-> "docs",
      number |-> TRUE, value |-> 1],
     [text |-> ":1", colon |-> TRUE, prefix |-> "",
      number |-> TRUE, value |-> 1],
     [text |-> "2", colon |-> FALSE, prefix |-> "",
      number |-> TRUE, value |-> 2],
     [text |-> "0", colon |-> FALSE, prefix |-> "",
      number |-> TRUE, value |-> 0],
     [text |-> "-2", colon |-> FALSE, prefix |-> "",
      number |-> TRUE, value |-> 0 - 2],
     [text |-> "x", colon |-> FALSE, prefix |-> "",
      number |-> FALSE, value |-> 0],
     [text |-> "", colon |-> FALSE, prefix |-> "",
      number |-> FALSE, value |-> 0]}

(* An IncrementalClassifiedDataset (or its quick subclass) whose          *)
(* constructor has run the base class constructor and is about to read    *)
(* the settings                                                           *)
WeightInit ==
    /\ \E dw \in BaseDocwords : dataset = [docwords |-> dw, vocab |-> BaseVocab]
    /\ \E v \in {"incremental", "quick"}, smoothing_ \in SmoothingSettings,
          wt \in WeightTexts :
          Holds([NewInstance(v, dataset, [smoothing |-> smoothing_,
                                          label_weight |-> Chars("2")])
                   EXCEPT !.settings = [smoothing |-> smoothing_,
                                        label_weight |-> Chars(wt.text)],
                          !.smoothing = None,
                          !.label_weight = None])
    /\ refs = [self |-> NewRefs("self"), other |-> None]
    /\ other = None
    /\ returned = None
    /\ lastOp = "super_init"
    /\ NoLauncher
    /\ computeRun = 0
    /\ fullPass = FALSE
    /\ computed = FALSE
    /\ raised = FALSE

(* The rest of IncrementalClassifiedDataset.__init__: an exception of     *)
(* get_label_weight_function leaves the constructor, and no instance      *)
(* comes to be                                                            *)
IncrementalInit ==
    /\ lastOp = "super_init"
    /\ LET fn == get_label_weight_function(settings.label_weight)
       IN IF fn.kind = "raise"
          THEN /\ raised' = TRUE
               /\ returned' = [arg |-> settings.label_weight, value |-> fn]
               /\ label_weight' = None
          ELSE /\ raised' = FALSE
               /\ returned' = None
               /\ label_weight' = fn
    /\ smoothing' = settings.smoothing
    /\ lastOp' = "init"
    /\ UNCHANGED launcherVars
    /\ UNCHANGED <<dataset, settings, variant, vocab, docwords, dtype, labels,
                   classorder, orderedclasses, newlabels, prevq, cooccurrences,
                   dataset_cooccurrences, tokens, refs, other, computeRun,
                   fullPass, computed, seen>>

(* self.label_weight(doclength, corpussize), as _label_helper calls it *)
LabelWeight(doclength, corpussize) ==
    /\ Created
    /\ returned' = [arg |-> <<doclength, corpussize>>,
                    value |-> CallWeight(label_weight, doclength, corpussize)]
    /\ lastOp' = "label_weight"
    /\ UNCHANGED launcherVars
    /\ raised' = FALSE
    /\ UNCHANGED <<dataset, settingsVars, vocab, docwords, dtype, labels,
                   classorder, orderedclasses, newlabels, prevq, cooccurrences,
                   tokens, refs, other, computeRun, fullPass, computed, seen>>

WeightNext ==
    \/ IncrementalInit
    \/ \E doclength \in 0..MaxDocLength, corpussize \in 0..NumDocs :
          LabelWeight(doclength, corpussize)

WeightSpec == WeightInit /\ [][WeightNext]_vars

(* The label maps a batch dataset is built from: any documents labeled *)
LabelMaps == UNION {[T -> Labels] : T \in SUBSET Titles}

(* The class orders over the classes S *)
ClassOrders(S) ==
    {co \in [S -> 0..(Cardinality(S) - 1)] :
        \A l1, l2 \in S : co[l1] = co[l2] => l1 = l2}

(* np.append(self._vocab, self.orderedclasses) *)
Concat0(f, g) ==
    [i \in 0..(Len0(f) + Len0(g) - 1) |->
        IF i < Len0(f) THEN f[i] ELSE g[i - Len0(f)]]

(* A ClassifiedDataset whose constructor has run                          *)
(* AbstractClassifiedDataset.__init__ with the caller's label map and a   *)
(* class order that knows every label of the map                          *)
BatchInit ==
    /\ \E dw \in BaseDocwords : dataset = [docwords |-> dw, vocab |-> BaseVocab]
    /\ \E lm \in LabelMaps, S \in SUBSET Labels :
          /\ \A t \in DOMAIN lm : lm[t] \in S
          /\ \E co \in ClassOrders(S) :
                Holds([NewInstance("batch", dataset,
                                   [smoothing |-> 0, label_weight |-> Chars("2")])
                         EXCEPT !.settings = None,
                                !.smoothing = None,
                                !.label_weight = None,
                                !.labels = lm,
                                !.classorder = co,
                                !.orderedclasses = orderclasses(co)])
    /\ refs = [self |-> [NewRefs("self") EXCEPT !.labels = "caller",
                                                !.classorder = "caller"],
               other |-> None]
    /\ other = None
    /\ returned = None
    /\ lastOp = "super_init"
    /\ NoLauncher
    /\ computeRun = 0
    /\ fullPass = FALSE
    /\ computed = FALSE
    /\ raised = FALSE

(* The rest of ClassifiedDataset.__init__ for a dataset that is not a     *)
(* ClassifiedDataset yet.  The loop reads self.labels[title] for every    *)
(* title of the corpus, which raises KeyError at the first document       *)
(* without an entry; the matrix under construction is lost then.          *)
ClassifiedDatasetInit ==
    /\ variant = "batch"
    /\ lastOp = "super_init"
    /\ LET vocab1 == Concat0(vocab, orderedclasses)
           missing == {d \in DOMAIN titles : titles[d] \notin DOMAIN labels}
           first == CHOOSE d \in missing : \A e \in missing : d <= e
           tmp == [r \in 0..(Len0(vocab1) - 1) |->
                     [c \in 0..(Len0(titles) - 1) |->
                        IF r < origvocabsize THEN docwords[r][c]
                        ELSE IF r = origvocabsize
                                    + classorder[labels[titles[c]]]
                             THEN 1 ELSE 0]]
       IN /\ vocab' = vocab1
          /\ IF missing # {}
             THEN /\ raised' = TRUE
                  /\ returned' = [arg |-> titles[first],
                                  value |-> Raised("KeyError")]
                  /\ docwords' = docwords
                  /\ Aliasing({}, {"vocab"})
             ELSE /\ raised' = FALSE
                  /\ returned' = None
                  /\ docwords' = tmp
                  /\ Aliasing({}, {"vocab", "docwords"})
    /\ lastOp' = "init"
    /\ UNCHANGED launcherVars
    /\ UNCHANGED <<settingsVars, dtype, labels, classorder, orderedclasses,
                   newlabels, prevq, cooccurrences, tokens, computeRun,
                   fullPass, computed, seen>>

BatchNext ==
    \/ ClassifiedDatasetInit
    \/ \E doc_id \in DOMAIN titles : DocTokens(doc_id)

BatchSpec == BatchInit /\ [][BatchNext]_vars

(* label_document takes any string, the empty one included *)
SupLabels == Labels \cup {""}

(* An IncrementalSupervisedAnchorDataset labeled with any strings *)
SupInit == Init /\ variant = "supervised"

SupNext ==
    \/ \E title \in Titles, label \in SupLabels : SupLabelDocument(title, label)
    \/ SupComputeCooccurrences

SupSpec == SupInit /\ [][SupNext]_vars

(* One setting and one label are enough to make every method write *)
SharingSettings ==
    {st \in Settings : /\ st.smoothing = MaxSmoothing
                       /\ st.label_weight = Chars("doc:1")}

SharingLabels == {"A"}

(* Two instances, of any two classes, built from the same base dataset *)
SharingInit ==
    /\ \E dw \in BaseDocwords : dataset = [docwords |-> dw, vocab |-> BaseVocab]
    /\ \E v1, v2 \in Variants, st \in SharingSettings :
          /\ Holds(NewInstance(v1, dataset, st))
          /\ other = NewInstance(v2, dataset, st)
    /\ refs = [self |-> NewRefs("self"), other |-> NewRefs("other")]
    /\ Fresh
    /\ NoLauncher

(* The names "self" and "other" as the other instance sees them *)
Swapped(r) ==
    [f \in DOMAIN r |->
        IF r[f] = "self" THEN "other"
        ELSE IF r[f] = "other" THEN "self"
        ELSE r[f]]

(* The caller turns to the other instance: the variables now hold it *)
Switch ==
    /\ other # None
    /\ variant' = other.variant
    /\ settings' = other.settings
    /\ smoothing' = other.smoothing
    /\ label_weight' = other.label_weight
    /\ vocab' = other.vocab
    /\ docwords' = other.docwords
    /\ dtype' = other.dtype
    /\ labels' = other.labels
    /\ classorder' = other.classorder
    /\ orderedclasses' = other.orderedclasses
    /\ newlabels' = other.newlabels
    /\ prevq' = other.prevq
    /\ cooccurrences' = other.cooccurrences
    /\ dataset_cooccurrences' = other.dataset_cooccurrences
    /\ tokens' = other.tokens
    /\ seen' = other.seen
    /\ other' = Self
    /\ refs' = [self |-> Swapped(refs.other), other |-> Swapped(refs.self)]
    /\ returned' = None
    /\ lastOp' = "switch"
    /\ UNCHANGED launcherVars
    /\ computeRun' = 0
    /\ fullPass' = FALSE
    /\ computed' = FALSE
    /\ raised' = FALSE
    /\ UNCHANGED dataset

SharingNext ==
    \/ \E title \in Titles, label \in SharingLabels :
          IncLabelDocument(title, label)
    \/ IncComputeCooccurrences
    \/ \E title \in Titles, label \in SharingLabels :
          QuickLabelDocument(title, label)
    \/ QuickComputeCooccurrences
    \/ \E title \in Titles, label \in SharingLabels :
          SupLabelDocument(title, label)
    \/ SupComputeCooccurrences
    \/ Switch

SharingSpec == SharingInit /\ [][SharingNext]_vars

(* Two instances driven side by side: the caller makes every call first  *)
(* on an IncrementalClassifiedDataset and then on an instance of another *)
(* class built from the same dataset and settings. The call being made   *)
(* is kept with the instance that waits.                                 *)
Calls ==
    [op : {"label_document"}, title : Titles, label : Labels]
        \cup {[op |-> "compute_cooccurrences", title |-> "", label |-> ""]}

(* The waiting instance together with the call the caller is making *)
Waiting(inst, call) ==
    [f \in DOMAIN inst \cup {"call"} |->
        IF f = "call" THEN call ELSE inst[f]]

LockstepInit ==
    /\ \E dw \in BaseDocwords : dataset = [docwords |-> dw, vocab |-> BaseVocab]
    /\ \E v2 \in {"quick", "supervised"}, st \in Settings, call \in Calls :
          /\ Holds(NewInstance("incremental", dataset, st))
          /\ other = Waiting(NewInstance(v2, dataset, st), call)
    /\ refs = [self |-> NewRefs("self"), other |-> NewRefs("other")]
    /\ Fresh
    /\ NoLauncher

(* The instance the variables hold has not yet been given the call *)
Due(call) ==
    /\ lastOp \in {"init", "switch"}
    /\ other.call = call

(* The caller turns to the other instance; back at the first instance it *)
(* goes on to its next call.                                             *)
Turn ==
    /\ lastOp \in {"label_document", "compute_cooccurrences"}
    /\ variant' = other.variant
    /\ settings' = other.settings
    /\ smoothing' = other.smoothing
    /\ label_weight' = other.label_weight
    /\ vocab' = other.vocab
    /\ docwords' = other.docwords
    /\ dtype' = other.dtype
    /\ labels' = other.labels
    /\ classorder' = other.classorder
    /\ orderedclasses' = other.orderedclasses
    /\ newlabels' = other.newlabels
    /\ prevq' = other.prevq
    /\ cooccurrences' = other.cooccurrences
    /\ dataset_cooccurrences' = other.dataset_cooccurrences
    /\ tokens' = other.tokens
    /\ seen' = other.seen
    /\ \E call \in Calls :
          /\ variant = "incremental" => call = other.call
          /\ other' = Waiting(Self, call)
    /\ refs' = [self |-> Swapped(refs.other), other |-> Swapped(refs.self)]
    /\ returned' = None
    /\ lastOp' = "switch"
    /\ UNCHANGED launcherVars
    /\ computeRun' = 0
    /\ fullPass' = FALSE
    /\ computed' = FALSE
    /\ raised' = FALSE
    /\ UNCHANGED dataset

LockstepNext ==
    \/ \E title \in Titles, label \in Labels :
          /\ Due([op |-> "label_document", title |-> title, label |-> label])
          /\ IncLabelDocument(title, label)
    \/ \E title \in Titles, label \in Labels :
          /\ Due([op |-> "label_document", title |-> title, label |-> label])
          /\ QuickLabelDocument(title, label)
    \/ \E title \in Titles, label \in Labels :
          /\ Due([op |-> "label_document", title |-> title, label |-> label])
          /\ SupLabelDocument(title, label)
    \/ /\ Due([op |-> "compute_cooccurrences", title |-> "", label |-> ""])
       /\ IncComputeCooccurrences
    \/ /\ Due([op |-> "compute_cooccurrences", title |-> "", label |-> ""])
       /\ QuickComputeCooccurrences
    \/ /\ Due([op |-> "compute_cooccurrences", title |-> "", label |-> ""])
       /\ SupComputeCooccurrences
    \/ Turn

LockstepSpec == LockstepInit /\ [][LockstepNext]_vars

----------------------------------------------------------------------------
(* The launcher, main.py: pickle_data and run_jobs with their threads *)

NumJobs == 3

HostPool == <<"host1", "host2">>

ConfigPool == <<"s1", "s2", "s3">>

(* utils.get_pickle_name: the lines s1 and s2 name the same pickle *)
get_pickle_name(s) == IF s = "s3" THEN "p2" ELSE "p1"

(* Lists of NumJobs entries in ascending order: the threads do not depend *)
(* on which host or line is which                                         *)
Lists(pool) ==
    {[i \in 0..(NumJobs - 1) |-> pool[index[i]]] :
        index \in {f \in [0..(NumJobs - 1) -> 1..Len(pool)] :
                      \A i \in 0..(NumJobs - 2) : f[i] <= f[i + 1]}}

(* No corpus instance: the launcher only starts remote processes *)
NoDataset ==
    /\ dataset = None /\ settings = None /\ variant = "none"
    /\ smoothing = 0 /\ label_weight = None /\ vocab = None
    /\ docwords = None /\ dtype = "none" /\ labels = None
    /\ classorder = None /\ orderedclasses = None /\ newlabels = None
    /\ prevq = None /\ cooccurrences = None /\ dataset_cooccurrences = None
    /\ tokens = None /\ refs = None /\ other = None /\ returned = None
    /\ lastOp = "none" /\ computeRun = 0 /\ fullPass = FALSE
    /\ computed = FALSE /\ raised = FALSE /\ seen = None

(* __main__ after check_counts: as many settings lines as hosts *)
LauncherInit ==
    /\ hosts \in Lists(HostPool)
    /\ config \in Lists(ConfigPool)
    /\ work = {}
    /\ lock = FALSE
    /\ threads = <<>>
    /\ main = [pc |-> "pickle_data", i |-> 0]
    /\ processed = [s \in {ConfigPool[i] : i \in 1..Len(ConfigPool)} |-> 0]
    /\ NoDataset

(* The loop of pickle_data over the settings: the first line of each     *)
(* pickle name                                                           *)
pickle_work(settings_) ==
    {settings_[i] : i \in {k \in DOMAIN settings_ :
        \A j \in 0..(k - 1) :
            get_pickle_name(settings_[j]) # get_pickle_name(settings_[k])}}

Thread(class, host, settings_) ==
    [class |-> class, host |-> host, settings |-> settings_, pc |-> "new",
     killed |-> FALSE]

(* pickle_data up to the thread list: one PickleThread per distinct host, *)
(* in the order the set of hosts is iterated                              *)
PickleData ==
    /\ main.pc = "pickle_data"
    /\ work' = pickle_work(config)
    /\ lock' = FALSE
    /\ LET distinct == {hosts[i] : i \in DOMAIN hosts}
       IN \E order \in [0..(Cardinality(distinct) - 1) -> distinct] :
             /\ \A i, j \in DOMAIN order : order[i] = order[j] => i = j
             /\ threads' = [i \in DOMAIN order |->
                              Thread("PickleThread", order[i], "")]
    /\ main' = [pc |-> "pickle_start", i |-> 0]
    /\ UNCHANGED <<hosts, config, processed, datasetVars>>

(* for t in threads: t.start() *)
StartThreads ==
    /\ main.pc \in {"pickle_start", "jobs_start"}
    /\ IF main.i < Len0(threads)
       THEN /\ threads' = [threads EXCEPT ![main.i].pc = "run"]
            /\ main' = [main EXCEPT !.i = main.i + 1]
       ELSE /\ main' = [pc |-> IF main.pc = "pickle_start"
                                THEN "pickle_join" ELSE "jobs_join",
                        i |-> 0]
            /\ UNCHANGED threads
    /\ UNCHANGED <<hosts, config, work, lock, processed, datasetVars>>

(* for t in threads: t.join(); after the last join pickle_data returns   *)
(* to __main__, which calls run_jobs, and run_jobs returns to __main__,  *)
(* which calls make_plots                                                *)
JoinThreads ==
    /\ main.pc \in {"pickle_join", "jobs_join"}
    /\ IF main.i < Len0(threads)
       THEN /\ threads[main.i].pc = "done"
            /\ main' = [main EXCEPT !.i = main.i + 1]
       ELSE main' = [pc |-> IF main.pc = "pickle_join"
                             THEN "run_jobs" ELSE "make_plots",
                     i |-> 0]
    /\ UNCHANGED <<hosts, config, work, lock, threads, processed, datasetVars>>

(* Variant of the lock that lets a second thread in *)
acquire_unlocked(lock_) == TRUE

(* with self.lock: the thread goes on when the lock is free *)
acquire(lock_) == ~lock_

(* One step of PickleThread.run; the whole body of the loop, the remote  *)
(* session included, is inside the with block                            *)
PickleThreadRun(t) ==
    /\ t \in DOMAIN threads
    /\ threads[t].class = "PickleThread"
    /\ \/ /\ threads[t].pc = "run"
          /\ acquire(lock)
          /\ lock' = TRUE
          /\ threads' = [threads EXCEPT ![t].pc = "locked"]
          /\ UNCHANGED <<work, processed>>
       \/ /\ threads[t].pc = "locked"
          /\ work = {}
          /\ lock' = FALSE
          /\ threads' = [threads EXCEPT ![t].pc = "done"]
          /\ UNCHANGED <<work, processed>>
       \/ /\ threads[t].pc = "locked"
          /\ \E settings_ \in work :
                /\ work' = work \ {settings_}
                /\ threads' = [threads EXCEPT ![t].pc = "login",
                                              ![t].settings = settings_]
          /\ UNCHANGED <<lock, processed>>
       \/ /\ threads[t].pc = "login"
          /\ threads' = [threads EXCEPT ![t].pc = "sendline"]
          /\ UNCHANGED <<work, lock, processed>>
       \/ /\ threads[t].pc = "sendline"
          /\ threads' = [threads EXCEPT ![t].pc = "prompt"]
          /\ UNCHANGED <<work, lock, processed>>
       \/ /\ threads[t].pc = "prompt"
          /\ processed' = [processed EXCEPT ![threads[t].settings] = @ + 1]
          /\ threads' = [threads EXCEPT ![t].pc = "logout"]
          /\ UNCHANGED <<work, lock>>
       \/ /\ threads[t].pc = "logout"
          /\ lock' = FALSE
          /\ threads' = [threads EXCEPT ![t].pc = "run"]
          /\ UNCHANGED <<work, processed>>
    /\ UNCHANGED <<hosts, config, main, datasetVars>>

(* run_jobs up to the thread list: zip(hosts, settings, range(len(hosts))) *)
RunJobs ==
    /\ main.pc = "run_jobs"
    /\ threads' = [i \in DOMAIN hosts |->
                     Thread("JobThread", hosts[i], config[i])]
    /\ main' = [pc |-> "jobs_start", i |-> 0]
    /\ UNCHANGED <<hosts, config, work, lock, processed, datasetVars>>

(* One step of JobThread.run: the remote session, then the loop that     *)
(* sleeps until self.killed is set                                       *)
JobThreadRun(t) ==
    /\ t \in DOMAIN threads
    /\ threads[t].class = "JobThread"
    /\ \/ /\ threads[t].pc = "run"
          /\ threads' = [threads EXCEPT ![t].pc = "sendline"]
       \/ /\ threads[t].pc = "sendline"
          /\ threads' = [threads EXCEPT ![t].pc = "prompt"]
       \/ /\ threads[t].pc = "prompt"
          /\ threads' = [threads EXCEPT ![t].pc = "logout"]
       \/ /\ threads[t].pc = "logout"
          /\ threads' = [threads EXCEPT ![t].pc = "sleep"]
       \/ /\ threads[t].pc = "sleep"
          /\ threads[t].killed
          /\ threads' = [threads EXCEPT ![t].pc = "done"]
       \/ /\ threads[t].pc = "sleep"
          /\ ~threads[t].killed
          /\ UNCHANGED threads
    /\ UNCHANGED <<hosts, config, work, lock, main, processed, datasetVars>>

(* except KeyboardInterrupt in run_jobs: every thread is told to stop *)
KeyboardInterrupt ==
    /\ main.pc \in {"jobs_start", "jobs_join"}
    /\ threads' = [i \in DOMAIN threads |->
                     [threads[i] EXCEPT !.killed = TRUE]]
    /\ main' = [pc |-> "kill_join", i |-> 0]
    /\ UNCHANGED <<hosts, config, work, lock, processed, datasetVars>>

(* The joins of the handler, then sys.exit(-1); joining a thread that    *)
(* was never started raises RuntimeError                                 *)
KillJoin ==
    /\ main.pc = "kill_join"
    /\ IF main.i < Len0(threads)
       THEN \/ /\ threads[main.i].pc = "done"
               /\ main' = [main EXCEPT !.i = main.i + 1]
            \/ /\ threads[main.i].pc = "new"
               /\ main' = [pc |-> "died", i |-> 0]
       ELSE main' = [pc |-> "exit", i |-> 0]
    /\ UNCHANGED <<hosts, config, work, lock, threads, processed, datasetVars>>

MainThread == PickleData \/ StartThreads \/ JoinThreads \/ RunJobs \/ KillJoin

LauncherNext ==
    \/ PickleData
    \/ StartThreads
    \/ JoinThreads
    \/ RunJobs
    \/ KillJoin
    \/ KeyboardInterrupt
    \/ \E t \in 0..(NumJobs - 1) : PickleThreadRun(t)
    \/ \E t \in 0..(NumJobs - 1) : JobThreadRun(t)

(* The main thread and every started thread keep being scheduled; a       *)
(* remote session ends, by its prompt or by the timeout of 600 seconds.   *)
LauncherSpec ==
    /\ LauncherInit
    /\ [][LauncherNext]_vars
    /\ WF_vars(MainThread)
    /\ \A t \in 0..(NumJobs - 1) :
          WF_vars(PickleThreadRun(t)) /\ WF_vars(JobThreadRun(t))

----------------------------------------------------------------------------
(* Vocabulary of the properties *)

NumClasses == Len0(classorder)

DocNums == 0..(Len0(titles) - 1)

PseudoRows == origvocabsize..(Rows(docwords) - 1)

Labeled(d) == titles[d] \in DOMAIN labels

Pending(d) == titles[d] \in DOMAIN newlabels

ClassIndexOf(d) == classorder[labels[titles[d]]]

(* weight(real-token count of d, number of documents) *)
WeightOf(d) ==
    CallWeight(label_weight, ColumnSum(docwords, d, 0, origvocabsize - 1),
               Len0(titles))

(* The column of d holds the weight at its class row, 0 in the others *)
WeightRule(d) ==
    /\ origvocabsize + ClassIndexOf(d) \in PseudoRows
    /\ \A r \in PseudoRows :
          docwords[r][d] =
              IF r = origvocabsize + ClassIndexOf(d) THEN WeightOf(d) ELSE 0

(* The document-word matrix built from scratch from the label map *)
ScratchDocwords ==
    [r \in 0..(origvocabsize + NumClasses - 1) |->
       [d \in DocNums |->
          IF r < origvocabsize THEN docwords[r][d]
          ELSE IF ~Labeled(d) THEN smoothing
          ELSE IF r = origvocabsize + ClassIndexOf(d) THEN WeightOf(d)
          ELSE 0]]

Incremental == variant = "incremental"

Quick == variant = "quick"

Supervised == variant = "supervised"

AfterLabel == lastOp = "label_document"

AfterCompute == lastOp = "compute_cooccurrences"

----------------------------------------------------------------------------
C2_IncrementalWeightInvariant ==
    Incremental => \A d \in DocNums : Labeled(d) => WeightRule(d)

(* A document relabeled from class 0 to the known class 1 *)
C2_Witness ==
    /\ Incremental /\ AfterLabel
    /\ NumClasses = 2
    /\ \A d \in DocNums : Labeled(d) /\ ClassIndexOf(d) = 1
    /\ \E d \in DocNums : WeightOf(d) > 0

(* C3 as claimed: in the quick variant the weight rule holds for every     *)
(* labeled document as soon as label_document returns.                     *)
C3_QuickWeightInvariantAlways ==
    Quick => \A d \in DocNums : Labeled(d) => WeightRule(d)

(* C3 amended: in the quick variant the weight rule holds for every        *)
(* labeled document that is not in the pending batch newlabels; a pending  *)
(* document is recorded there with its current label and keeps its old     *)
(* column until the next compute_cooccurrences, after which no document is *)
(* pending.                                                                *)
C3_QuickWeightInvariantUnlessPending ==
    Quick =>
        /\ \A d \in DocNums : (Labeled(d) /\ ~Pending(d)) => WeightRule(d)
        /\ \A t \in DOMAIN newlabels :
              t \in DOMAIN labels /\ newlabels[t] = labels[t]
        /\ AfterCompute => newlabels = <<>>

(* A pending relabel next to a labeled document that is not pending *)
C3_Witness ==
    /\ Quick /\ AfterLabel
    /\ \E d \in DocNums : Labeled(d) /\ Pending(d) /\ ~WeightRule(d)
    /\ \E d \in DocNums : Labeled(d) /\ ~Pending(d) /\ WeightOf(d) > 0

(* C4: in the incremental and quick variants every document without a      *)
(* label holds the smoothing constant in every pseudo-row of its column.   *)
C4_SmoothingInvariant ==
    (Incremental \/ Quick) =>
        \A d \in DocNums : ~Labeled(d) =>
            \A r \in PseudoRows : docwords[r][d] = smoothing

(* An unlabeled document after two rebuilds, with nonzero smoothing *)
C4_Witness ==
    /\ Incremental \/ Quick
    /\ smoothing > 0
    /\ NumClasses = 2
    /\ Rows(docwords) = origvocabsize + 2
    /\ \E d \in DocNums : ~Labeled(d)

(* C5: in every incremental variant classorder is a bijection from the     *)
(* labels seen so far onto 0..numClasses-1, orderedclasses has numClasses  *)
(* entries and orderedclasses[classorder[label]] = label.                  *)
C5_ClassOrderBijection ==
    /\ DOMAIN classorder = {seen[i] : i \in DOMAIN seen}
    /\ {classorder[l] : l \in DOMAIN classorder} = 0..(NumClasses - 1)
    /\ \A l1, l2 \in DOMAIN classorder :
          classorder[l1] = classorder[l2] => l1 = l2
    /\ DOMAIN orderedclasses = 0..(NumClasses - 1)
    /\ \A l \in DOMAIN classorder : orderedclasses[classorder[l]] = l

C5_Witness ==
    /\ Supervised
    /\ NumClasses = 2
    /\ orderedclasses[0] # orderedclasses[1]

(* C6: class indices are assigned in first-seen order and never change:  *)
(* the k-th distinct label passed to label_document has index k-1, and a   *)
(* label keeps its index through every later call, also when a relabel     *)
(* leaves its class without documents.                                     *)
C6_FirstSeenOrderIsStable ==
    /\ [](\A i \in DOMAIN seen :
             seen[i] \in DOMAIN classorder /\ classorder[seen[i]] = i)
    /\ [][\A l \in DOMAIN classorder :
             l \in DOMAIN classorder' /\ classorder'[l] = classorder[l]]_vars

(* doc1 -> A, doc2 -> B, doc1 -> B: class A keeps index 0 with no documents *)
C6_Witness ==
    /\ Incremental
    /\ seen = [i \in 0..1 |-> IF i = 0 THEN "A" ELSE "B"]
    /\ classorder = [l \in {"A", "B"} |-> IF l = "A" THEN 0 ELSE 1]
    /\ \A t \in Titles : t \in DOMAIN labels /\ labels[t] = "B"
    /\ docwords[origvocabsize][titlesorder["doc1"]] = 0
    /\ docwords[origvocabsize + 1][titlesorder["doc1"]] > 0

(* C7: in the incremental and quick variants the vocabulary has            *)
(* origvocabsize + numClasses entries, starts with the real words, holds   *)
(* each label at origvocabsize + classorder[label] and never shrinks, and  *)
(* the document-word matrix has len(vocab) rows and numDocs columns.       *)
C7_VocabularyAndShape ==
    /\ []((Incremental \/ Quick) =>
            /\ Len0(vocab) = origvocabsize + NumClasses
            /\ \A i \in 0..(origvocabsize - 1) : vocab[i] = BaseVocab[i]
            /\ \A l \in DOMAIN classorder :
                  vocab[origvocabsize + classorder[l]] = l
            /\ Rows(docwords) = Len0(vocab)
            /\ \A r \in DOMAIN docwords :
                  DOMAIN docwords[r] = 0..(Len0(titles) - 1))
    /\ [][/\ Len0(vocab') >= Len0(vocab)
          /\ \A i \in 0..(origvocabsize - 1) : vocab'[i] = vocab[i]]_vars

C7_Witness ==
    /\ Quick
    /\ Len0(vocab) = origvocabsize + 2
    /\ vocab[origvocabsize] = "B"
    /\ newlabels # <<>>

(* C8: a compute_cooccurrences call that directly follows another one      *)
(* leaves Q, the document-word matrix, prevq and the pending batch as they *)
(* were.                                                                   *)
C8_ComputeTwiceChangesNothing ==
    [][(AfterCompute /\ lastOp' = "compute_cooccurrences") =>
          /\ cooccurrences' = cooccurrences
          /\ docwords' = docwords
          /\ prevq' = prevq
          /\ newlabels' = newlabels]_vars

(* The second of two compute calls after a pending relabel was folded in *)
C8_Witness ==
    /\ Quick /\ AfterCompute /\ computeRun = 2
    /\ NumClasses = 2
    /\ \A d \in DocNums : Labeled(d) /\ ClassIndexOf(d) = 1 /\ WeightRule(d)

(* C9: in every incremental variant _cooccurrences is None when            *)
(* label_document has returned, for a new class, a known class and the     *)
(* label the document already had.                                         *)
C9_LabelClearsQ ==
    AfterLabel => cooccurrences = None

(* A known-class label arrived while a computed Q was cached *)
C9_Witness ==
    /\ Quick /\ AfterLabel
    /\ prevq # None
    /\ newlabels # <<>>

(* C10 as claimed: label_document never runs a co-occurrence computation,  *)
(* in particular never a full pass.                                        *)
C10_LabelNeverComputes ==
    AfterLabel => (~computed /\ ~fullPass)

(* C10 amended: label_document leaves Q cleared; it runs no co-occurrence  *)
(* computation in the incremental and supervised variants, nor in the      *)
(* quick variant for a known class; in the quick variant a label that is a *)
(* new class first runs compute_cooccurrences, which is a full pass        *)
(* exactly when no prevq is cached.                                        *)
C10_LabelComputesOnlyForNewClassInQuick ==
    [][lastOp' = "label_document" =>
          /\ cooccurrences' = None
          /\ computed' <=> (Quick /\ DOMAIN classorder' # DOMAIN classorder)
          /\ fullPass' <=> (computed' /\ prevq = None)]_vars

(* The first label of a quick dataset ran the full pass inside label_document *)
C10_Witness ==
    /\ Quick /\ AfterLabel
    /\ computed /\ fullPass
    /\ NumClasses = 1

AfterDocTokens == lastOp = "doc_tokens"

(* How often word w occurs in a token list *)
Occurrences(list, w) == Cardinality({i \in DOMAIN list : list[i] = w})

(* C11: a document's token list is cached: once doc_tokens has built it,  *)
(* the cache entry never changes and every later doc_tokens call for the  *)
(* document returns that same sequence without raising, whatever order    *)
(* the rng would produce and whatever label_document and                  *)
(* compute_cooccurrences calls came in between.                           *)
C11_DocTokensCached ==
    /\ [][/\ \A d \in DOMAIN tokens :
                d \in DOMAIN tokens' /\ tokens'[d] = tokens[d]
          /\ (lastOp' = "doc_tokens" /\ returned'.arg \in DOMAIN tokens) =>
                (~raised' /\ returned'.value = tokens[returned'.arg])]_vars
    /\ []((AfterDocTokens /\ ~raised) =>
            /\ returned.arg \in DOMAIN tokens
            /\ returned.value = tokens[returned.arg])

(* A labeled document whose list was shuffled out of row order before the *)
(* labeling is asked for again after it                                   *)
C11_Witness ==
    /\ AfterDocTokens /\ ~raised
    /\ dtype = "float"
    /\ titles[returned.arg] \in DOMAIN labels
    /\ Len0(returned.value) = 2
    /\ returned.value[0] > returned.value[1]

(* C12 as claimed: in every reachable state doc_tokens returns a list     *)
(* holding each real word w exactly docwords[w][doc] times and no index   *)
(* at or above origvocabsize, also when the list is first built after a   *)
(* labeling.                                                              *)
C12_DocTokensAreTheRealTokens ==
    AfterDocTokens =>
        /\ ~raised
        /\ \A w \in 0..(origvocabsize - 1) :
              Occurrences(returned.value, w) = docwords[w][returned.arg]
        /\ \A i \in DOMAIN returned.value :
              returned.value[i] \in 0..(origvocabsize - 1)

(* The entry of WeightTexts the instance was configured with *)
ConfiguredText ==
    CHOOSE wt \in WeightTexts : Chars(wt.text) = settings.label_weight

UnknownPrefix ==
    ConfiguredText.colon /\ ConfiguredText.prefix \notin {"doc", "corpus"}

(* The weight the grammar doc:<v> / corpus:<v> / <v> stands for *)
GrammarWeight(doclength, corpussize) ==
    IF ~ConfiguredText.colon THEN ConfiguredText.value
    ELSE IF ConfiguredText.prefix = "doc" THEN ConfiguredText.value * doclength
    ELSE ConfiguredText.value * corpussize

AfterLabelWeight == lastOp = "label_weight"

(* C13 as claimed: the weight function got from 'doc:<v>' returns         *)
(* v * docLen, from 'corpus:<v>' v * corpusSize and from '<v>' the        *)
(* constant v, and the result is non-negative for every input.            *)
C13_WeightFormsNonNegative ==
    AfterLabelWeight =>
        /\ returned.value = GrammarWeight(returned.arg[1], returned.arg[2])
        /\ returned.value >= 0

(* C13 amended: the weight function got from 'doc:<v>' returns            *)
(* v * docLen, from 'corpus:<v>' v * corpusSize and from '<v>' the        *)
(* constant v, each whatever the other argument is; v may be negative,    *)
(* and for non-negative counts the result is negative exactly when v is   *)
(* negative and the count it is scaled by, if any, is not zero.           *)
C13_WeightForms ==
    AfterLabelWeight =>
        LET scale == IF ~ConfiguredText.colon THEN 1
                     ELSE IF ConfiguredText.prefix = "doc" THEN returned.arg[1]
                     ELSE returned.arg[2]
        IN /\ returned.value = GrammarWeight(returned.arg[1], returned.arg[2])
           /\ returned.value < 0 <=> (ConfiguredText.value < 0 /\ scale > 0)

(* 'doc:-1' applied to a document of two tokens *)
C13_Witness ==
    /\ AfterLabelWeight
    /\ settings.label_weight = Chars("doc:-1")
    /\ returned.arg = <<2, 1>>
    /\ returned.value = 0 - 2

AfterInit == lastOp = "init"

(* C14 as claimed: get_label_weight_function raises exactly when the      *)
(* string has a ':' and the text before the first ':' is neither 'doc'    *)
(* nor 'corpus'; then no weight function is returned and the              *)
(* IncrementalClassifiedDataset under construction is not created.        *)
C14_RaisesExactlyOnUnknownPrefix ==
    AfterInit =>
        /\ raised <=> UnknownPrefix
        /\ raised => (label_weight = None /\ ~Created)

(* C14 amended: get_label_weight_function raises Exception when the       *)
(* string has a ':' and the text before the first ':' is neither 'doc'    *)
(* nor 'corpus', and otherwise ValueError when the value text is not a    *)
(* number; in no other case does it raise.  When it raises no weight      *)
(* function is returned, the constructor does not return an instance and  *)
(* no method runs on one.                                                 *)
C14_RaisesOnUnknownPrefixOrBadNumber ==
    /\ [](AfterInit =>
            /\ raised <=> (UnknownPrefix \/ ~ConfiguredText.number)
            /\ raised =>
                  /\ returned.value =
                        Raised(IF UnknownPrefix THEN "Exception"
                               ELSE "ValueError")
                  /\ label_weight = None
                  /\ ~Created
            /\ ~raised => (label_weight # None /\ Created))
    /\ [][~(AfterInit /\ raised)]_vars

(* A quick dataset configured with an unknown prefix *)
C14_Witness ==
    /\ AfterInit /\ raised
    /\ variant = "quick"
    /\ UnknownPrefix
    /\ returned.value = Raised("Exception")

Batch == variant = "batch"

(* C15 as claimed: batch construction of ClassifiedDataset succeeds also  *)
(* when some documents have no entry in the label map; it appends one     *)
(* pseudo-token per class, every labeled document has exactly 1 in the    *)
(* pseudo-row of its class and 0 in the other pseudo-rows, and every      *)
(* document without an entry has 0 in all pseudo-rows.                    *)
C15_BatchIndicatorRows ==
    (Batch /\ lastOp # "super_init") =>
        /\ Created
        /\ Len0(vocab) = origvocabsize + NumClasses
        /\ \A l \in DOMAIN classorder : vocab[origvocabsize + classorder[l]] = l
        /\ Rows(docwords) = Len0(vocab)
        /\ \A d \in DocNums : \A r \in PseudoRows :
              docwords[r][d] =
                  IF Labeled(d) /\ r = origvocabsize + ClassIndexOf(d)
                  THEN 1 ELSE 0

(* Width of the base matrix *)
OrigWidth == Cols(dataset_cooccurrences)

(* The documents that contain word i and have an entry in the label map *)
LabeledWith(i) == {d \in DocNums : docwords[i][d] > 0 /\ Labeled(d)}

(* C16 as claimed: in the supervised variant the base matrix computed at  *)
(* construction never changes, and after every compute_cooccurrences Q    *)
(* has origWidth + numClasses columns of which the first origWidth equal  *)
(* the base matrix.                                                       *)
C16_BaseMatrixKept ==
    Supervised =>
        /\ dataset_cooccurrences
              = Dataset_compute_cooccurrences(dataset.docwords)
        /\ AfterCompute =>
              /\ Cols(cooccurrences) = OrigWidth + NumClasses
              /\ \A i \in DOMAIN dataset_cooccurrences :
                    \A j \in 0..(OrigWidth - 1) :
                       cooccurrences[i][j] = dataset_cooccurrences[i][j]

(* C17 as claimed: after compute_cooccurrences of the supervised variant, *)
(* for every word row i and class c the entry Q[i, origWidth + c] is the  *)
(* number of documents that contain word i and are labeled with class c   *)
(* divided by the number of documents that contain word i and have any    *)
(* entry in the label map, and 0 when there is no such document, for      *)
(* every label string.                                                    *)
C17_ClassColumnsAreFractions ==
    (Supervised /\ AfterCompute) =>
        \A i \in DOMAIN dataset_cooccurrences :
            \A c \in 0..(NumClasses - 1) :
                LET with == Cardinality({d \in LabeledWith(i) :
                                            ClassIndexOf(d) = c})
                    total == Cardinality(LabeledWith(i))
                IN /\ cooccurrences[i][OrigWidth + c] * total
                         = with * TallyUnit
                   /\ total = 0 => cooccurrences[i][OrigWidth + c] = 0

(* C18 as claimed: compute_cooccurrences of the incremental supervised    *)
(* variant never raises, and before the first label_document call         *)
(* (numClasses = 0) it yields exactly the base matrix.                    *)
C18_ComputeNeverRaises ==
    (Supervised /\ AfterCompute) =>
        /\ ~raised
        /\ NumClasses = 0 => cooccurrences = dataset_cooccurrences

(* C19: of two instances built from the same base dataset, a             *)
(* label_document or compute_cooccurrences call on one leaves every field *)
(* of the other (label map, class order, vocabulary, document-word        *)
(* matrix, cached Q) and the base dataset as they were; the instances     *)
(* never name the same label map, class order or Q object.                *)
C19_InstancesShareNothing ==
    /\ [][lastOp' # "switch" => (other' = other /\ dataset' = dataset)]_vars
    /\ [](other # None =>
            \A f \in {"labels", "classorder", "cooccurrences"} :
                refs.self[f] # refs.other[f])

(* Both instances have been labeled differently and one holds a computed Q *)
C19_Witness ==
    /\ other # None
    /\ AfterLabel
    /\ DOMAIN labels = {"doc1"}
    /\ DOMAIN other.labels = {"doc2"}
    /\ other.cooccurrences # None
    /\ docwords # other.docwords

(* C20: no label_document or compute_cooccurrences call changes a         *)
(* real-word entry: in every state every row below origvocabsize of the   *)
(* document-word matrix holds the counts of the base corpus, after        *)
(* rebuilds, single-column patches and the quick variant's deferred       *)
(* patches alike.                                                         *)
C20_RealRowsKept ==
    \A r \in 0..(origvocabsize - 1) : \A d \in DocNums :
        docwords[r][d] = dataset.docwords[r][d]

(* A deferred patch of the quick variant was applied to documents that    *)
(* hold real tokens, after an earlier rebuild                             *)
C20_Witness ==
    /\ Quick /\ AfterCompute /\ ~fullPass
    /\ NumClasses = 2
    /\ \A d \in DocNums :
          /\ Labeled(d) /\ ClassIndexOf(d) = 1 /\ WeightRule(d)
          /\ docwords[0][d] > 0

C22_NewClassDiscardsCache ==
    /\ []((Quick /\ prevq # None) =>
            Rows(prevq) = Len0(vocab) /\ Cols(prevq) = Len0(vocab))
    /\ []((Quick /\ AfterLabel /\ computed) => prevq = None)
    /\ [][(Quick /\ lastOp' = "label_document"
                 /\ DOMAIN classorder' # DOMAIN classorder) =>
              prevq' = None]_vars
    /\ [][(Quick /\ lastOp' = "compute_cooccurrences") =>
              /\ fullPass' <=> (prevq = None)
              /\ Rows(cooccurrences') = Len0(vocab')
              /\ Cols(cooccurrences') = Len0(vocab')
              /\ prevq' # None]_vars
    /\ [][(Quick /\ fullPass') => prevq = None]_vars

(* The compute after the second new class ran the full recomputation at  *)
(* the grown vocabulary and cached its result                            *)
C22_Witness ==
    /\ Quick /\ AfterCompute /\ fullPass
    /\ NumClasses = 2
    /\ Len0(vocab) = origvocabsize + 2
    /\ Rows(prevq) = origvocabsize + 2
    /\ prevq = cooccurrences

(* The columns of the documents in the pending batch *)
PendingDocnums == {titlesorder[t] : t \in DOMAIN newlabels}

(* C23: in the quick variant a compute_cooccurrences call with a cached Q *)
(* and a pending batch takes the mini-Q of the pending columns as they    *)
(* are out of the cached Q, gives those columns the weight rule of their  *)
(* pending labels and adds the mini-Q of the columns as they then are;    *)
(* when compute_cooccurrences has returned the pending batch is empty,    *)
(* every labeled document satisfies the weight rule, and prevq is the Q   *)
(* exposed. A second call applies nothing again.                          *)
C23_DeltaAppliedOnce ==
    /\ []((Quick /\ AfterCompute) =>
            /\ newlabels = <<>>
            /\ \A d \in DocNums : Labeled(d) => WeightRule(d)
            /\ prevq = cooccurrences)
    /\ [][(Quick /\ lastOp' = "compute_cooccurrences" /\ prevq # None) =>
              /\ \A d \in DocNums : d \notin PendingDocnums =>
                    \A r \in DOMAIN docwords : docwords'[r][d] = docwords[r][d]
              /\ cooccurrences' =
                    MatAdd(MatSub(prevq,
                                  MatDiv(_build_miniq(docwords, PendingDocnums),
                                         Len0(titles))),
                           MatDiv(_build_miniq(docwords', PendingDocnums),
                                  Len0(titles)))]_vars
    /\ [][(Quick /\ AfterCompute /\ lastOp' = "compute_cooccurrences") =>
              docwords' = docwords /\ cooccurrences' = cooccurrences]_vars

(* A pending batch was folded into the cached Q, and the two documents  *)
(* now sit in different classes                                         *)
C23_Witness ==
    /\ Quick /\ AfterCompute /\ ~fullPass /\ computeRun = 1
    /\ NumClasses = 2
    /\ \A d \in DocNums : Labeled(d) /\ WeightOf(d) > 0
    /\ ClassIndexOf(0) = 1 /\ ClassIndexOf(1) = 0
    /\ prevq = cooccurrences

(* Number of real-word tokens of document d in the matrix dw *)
RealCount(dw, d) == ColumnSum(dw, d, 0, origvocabsize - 1)

(* Sum of the whole column of document d, pseudo-rows included *)
ColumnCount(dw, d) == ColumnSum(dw, d, 0, Rows(dw) - 1)

(* What document d adds to entry (i, j) of a mini-Q when its normaliser   *)
(* is count * (count - 1), in units of 1/QUnit                            *)
Contribution(count, dw, d, i, j) ==
    IF count * (count - 1) = 0 THEN 0
    ELSE (dw[i][d] * dw[j][d] - (IF i = j THEN dw[i][d] ELSE 0))
             * (QUnit \div (count * (count - 1)))

(* The change of Q entry (i, j) in a step, times the number of documents *)
QChange(i, j) == (cooccurrences'[i][j] - prevq[i][j]) * Len0(titles)

(* A compute_cooccurrences step of the quick variant on a cached Q *)
DeltaStep == Quick /\ lastOp' = "compute_cooccurrences" /\ prevq # None

(* C24 as claimed: the normaliser count of a document in the mini-Q is    *)
(* its number of real-word tokens, and a document with fewer than 2 real  *)
(* tokens adds nothing to the mini-Q, whatever its pseudo-rows hold.      *)
C24_CountIsRealTokens ==
    [][DeltaStep =>
          /\ \A i, j \in DOMAIN prevq :
                QChange(i, j) =
                    SumOver(PendingDocnums, [d \in PendingDocnums |->
                        Contribution(RealCount(docwords', d), docwords', d, i, j)
                        - Contribution(RealCount(docwords, d), docwords, d, i, j)])
          /\ (\A d \in PendingDocnums : RealCount(docwords, d) < 2) =>
                cooccurrences' = prevq]_vars

(* C24 amended: the normaliser count of a document in the mini-Q is the   *)
(* sum of its whole column, the smoothing and label-weight entries of the *)
(* pseudo-rows included, as in the full recomputation; a document adds    *)
(* nothing to the mini-Q exactly when count * (count - 1) = 0 for that    *)
(* sum, so a document with fewer than 2 real tokens still contributes     *)
(* when its pseudo-rows lift the sum to 2 or more.                        *)
C24_CountIsColumnSum ==
    [][DeltaStep =>
          /\ \A i, j \in DOMAIN prevq :
                QChange(i, j) =
                    SumOver(PendingDocnums, [d \in PendingDocnums |->
                        Contribution(ColumnCount(docwords', d), docwords', d, i, j)
                        - Contribution(ColumnCount(docwords, d), docwords, d, i, j)])
          /\ (\A d \in PendingDocnums :
                  /\ ColumnCount(docwords, d) < 2
                  /\ ColumnCount(docwords', d) < 2) =>
                cooccurrences' = prevq]_vars

(* A relabel of documents with one real token each was folded into the   *)
(* cached Q and left a nonzero word-class entry                          *)
C24_Witness ==
    /\ Quick /\ AfterCompute /\ ~fullPass /\ computeRun = 1
    /\ NumClasses = 2
    /\ \A d \in DocNums :
          /\ RealCount(docwords, d) = 1
          /\ Labeled(d) /\ ClassIndexOf(d) = 1
          /\ ColumnCount(docwords, d) >= 2
    /\ cooccurrences[0][origvocabsize + 1] > 0

(* Both instances have been given the same calls: the variables hold the *)
(* second instance, which has just returned from the call                *)
Synced ==
    /\ other # None
    /\ variant # "incremental"
    /\ lastOp \in {"label_document", "compute_cooccurrences"}

(* C25: IncrementalSupervisedAnchorDataset.label_document changes nothing *)
(* but the label map, classorder, orderedclasses and the cached Q, which  *)
(* it clears: the document-word matrix and the vocabulary stay those of   *)
(* the base dataset through every sequence of calls, and after the same   *)
(* calls the label map, classorder and orderedclasses equal those of an   *)
(* IncrementalClassifiedDataset.                                          *)
C25_SupervisedTracksLabelsOnly ==
    /\ [](Supervised =>
            /\ docwords = dataset.docwords
            /\ vocab = dataset.vocab)
    /\ []((Supervised /\ Synced) =>
            /\ labels = other.labels
            /\ classorder = other.classorder
            /\ orderedclasses = other.orderedclasses)
    /\ [][(Supervised /\ lastOp' = "label_document") =>
              /\ docwords' = docwords /\ vocab' = vocab /\ dtype' = dtype
              /\ cooccurrences' = None
              /\ dataset_cooccurrences' = dataset_cooccurrences
              /\ UNCHANGED <<smoothing, label_weight, newlabels, prevq, tokens>>
          ]_vars

(* Both instances were given doc1 -> A, doc2 -> B, doc1 -> B or the like: *)
(* two classes, the first without documents, the base matrix untouched in *)
(* the supervised instance and rebuilt in the other                       *)
C25_Witness ==
    /\ Supervised /\ Synced /\ AfterLabel
    /\ NumClasses = 2
    /\ \A t \in Titles : t \in DOMAIN labels /\ labels[t] = orderedclasses[1]
    /\ Rows(docwords) = origvocabsize
    /\ Rows(other.docwords) = origvocabsize + 2
    /\ other.labels = labels

(* C26: given the same calls on the same base corpus and settings, an     *)
(* IncrementalClassifiedDataset and a QuickIncrementalClassifiedDataset   *)
(* have equal label maps, classorder, orderedclasses and vocabularies     *)
(* after every call, and equal document-word matrices whenever the quick  *)
(* instance has no pending relabels, which is the case after each         *)
(* new-class label and after each compute_cooccurrences.                  *)
C26_QuickMatchesIncremental ==
    /\ []((Quick /\ Synced) =>
            /\ labels = other.labels
            /\ classorder = other.classorder
            /\ orderedclasses = other.orderedclasses
            /\ vocab = other.vocab
            /\ newlabels = <<>> =>
                  docwords = other.docwords /\ dtype = other.dtype
            /\ (AfterCompute \/ computed) => newlabels = <<>>)
    /\ [][(Quick /\ lastOp' = "label_document"
                 /\ DOMAIN classorder' # DOMAIN classorder) =>
              newlabels' = <<>>]_vars

(* After a relabel to a known class the quick instance held the old      *)
(* column; the compute call both instances were then given made the      *)
(* matrices equal again                                                  *)
C26_Witness ==
    /\ Quick /\ Synced /\ AfterCompute /\ ~fullPass
    /\ NumClasses = 2
    /\ \A d \in DocNums : Labeled(d) /\ ClassIndexOf(d) = 1 /\ WeightOf(d) > 0
    /\ docwords = other.docwords
    /\ other.variant = "incremental"

PickleThreads == {t \in DOMAIN threads : threads[t].class = "PickleThread"}

JobThreads == {t \in DOMAIN threads : threads[t].class = "JobThread"}

(* The thread is inside the with block of PickleThread.run *)
InWith(t) ==
    threads[t].pc \in {"locked", "login", "sendline", "prompt", "logout"}

(* The remote pickling command of the thread is running *)
RemoteRunning(t) == threads[t].pc = "prompt"

(* C27: in pickle_data, with PickleThread workers sharing one work set and *)
(* one lock, under every interleaving the work set holds one settings     *)
(* line per distinct pickle name, every such line is popped and processed *)
(* exactly once, no other line is processed, at most one thread is        *)
(* running a remote pickling command (indeed at most one is inside the    *)
(* with block) at any time, every thread terminates once the work set is  *)
(* empty, and pickle_data returns.                                        *)
C27_PickleWorkProcessedOnce ==
    /\ [](\A s \in DOMAIN processed :
            /\ processed[s] <= 1
            /\ s \in work => processed[s] = 0
            /\ processed[s] = 1 => s \in pickle_work(config)
            /\ main.pc = "run_jobs" =>
                  (processed[s] = 1 <=> s \in pickle_work(config)))
    /\ [](\A s1, s2 \in pickle_work(config) :
            get_pickle_name(s1) = get_pickle_name(s2) => s1 = s2)
    /\ [](Cardinality({t \in PickleThreads : InWith(t)}) <= 1)
    /\ [](Cardinality({t \in PickleThreads : RemoteRunning(t)}) <= 1)
    /\ []((\E t \in PickleThreads : InWith(t)) <=> lock)
    /\ [](main.pc = "run_jobs" =>
            /\ work = {}
            /\ \A t \in PickleThreads : threads[t].pc = "done")
    /\ ((main.pc = "pickle_join" /\ work = {}) ~>
            (\A t \in PickleThreads : threads[t].pc = "done"))
    /\ <>(main.pc = "run_jobs")

(* pickle_data has returned after two threads processed one line each,   *)
(* a third line having been left out for sharing its pickle name         *)
C27_Witness ==
    /\ main.pc = "run_jobs"
    /\ Len0(threads) = 2
    /\ Cardinality(pickle_work(config)) = 2
    /\ Cardinality({config[i] : i \in DOMAIN config}) = 3
    /\ threads[0].settings # ""
    /\ threads[1].settings # ""
    /\ threads[0].settings # threads[1].settings

(* Every JobThread has had its prompt back and logged out *)
RemoteCommandsCompleted ==
    /\ main.pc = "jobs_join"
    /\ \A t \in JobThreads : threads[t].pc \in {"sleep", "done"}

(* The KeyboardInterrupt handler of run_jobs is or was running *)
Interrupted == main.pc \in {"kill_join", "exit", "died"}

(* C28: in run_jobs, once the remote command of every JobThread has       *)
(* completed and its session is logged out, and unless a                  *)
(* KeyboardInterrupt occurs, every JobThread.run terminates, the joins    *)
(* return and run_jobs returns, so that the launcher goes on to           *)
(* make_plots.                                                            *)
C28_RunJobsReturns ==
    RemoteCommandsCompleted ~> (main.pc = "make_plots" \/ Interrupted)

====
